---- MODULE Spec2Model ----
(***************************************************************************)
(* A model of the job-extraction browser extension: the text validator     *)
(* (TextExtractor), the API client (APIClient), the background service     *)
(* (JobExtractionService, three variants) and the settings store they      *)
(* read.                                                                   *)
(***************************************************************************)
EXTENDS Integers, Sequences, FiniteSets, TLC

VARIABLES
  txtOp,    \* the TextExtractor or content-script method last called ("none"
            \* before any call)
  txtArg,   \* its argument, a JavaScript value
  txtRet,   \* its completion: a returned value or a thrown error
  variant,  \* the script under study: the background script "dist", "firefox"
            \* or "legacy", or "client" for a page that uses APIClient
  storage,  \* browser.storage.sync: apiBaseUrl, autoExtract, showNotifications
  installed,    \* whether runtime.onInstalled has been delivered
  saves,        \* number of popup edits of the settings made so far
  popupStatus,  \* the popup's connection-status line: text and type
  client,       \* the APIClient object: variant, constructor argument, baseUrl
  tasks,        \* one record per handler invocation or client call, in order
  requests,     \* every fetch() issued, in order
  notifications, \* every browser.notifications.create() issued, in order
  popup,          \* "closed", or "open" once PopupManager.init has run
  shown,          \* the popup's checkboxes as loadSettings set them
  apiDomainValue, \* the value of the popup's API-domain input field
  domainTimeout,  \* the debounce timer of that field: armed, time left
  now,            \* milliseconds since the popup was opened
  inputLog,       \* the input events of the API-domain field: value, time
  saveLog,        \* the calls of saveApiDomain: argument, time, effect
  testButton,     \* the popup's Test button: disabled, textContent
  test,           \* the connection test: its number, where it stands, the URL
                  \* it fetches, the time left to its abort, the status it showed
  hideTimers      \* the pending timers that hide the status: time left of each

textVars == <<txtOp, txtArg, txtRet>>

connectionVars == <<testButton, test, hideTimers>>

popupVars ==
  <<popup, shown, apiDomainValue, domainTimeout, now, inputLog, saveLog,
    connectionVars>>

serviceVars ==
  <<variant, storage, installed, saves, popupStatus, client, tasks, requests,
    notifications>>

-----------------------------------------------------------------------------
(* JavaScript values.  A string is the sequence of its characters.         *)

JUndefined == [t |-> "undefined"]
JNull == [t |-> "null"]
JBool(b) == [t |-> "boolean", b |-> b]
JNum(n) == [t |-> "number", n |-> n]
JStr(s) == [t |-> "string", s |-> s]

TypeOf(v) == IF v.t = "null" THEN "object" ELSE v.t

\* ToBoolean: undefined, null, false, 0 and "" are falsy.
Falsy(v) ==
  \/ v.t \in {"undefined", "null"}
  \/ v.t = "boolean" /\ ~v.b
  \/ v.t = "number" /\ v.n = 0
  \/ v.t = "string" /\ v.s = <<>>

\* A completion: a normal return, or a thrown error with its message.
Return(v) == [type |-> "return", value |-> v]
Throw(name, msg) == [type |-> "throw", name |-> name, message |-> msg]

-----------------------------------------------------------------------------
(* String.prototype operations on character sequences.                     *)

WhiteSpace == {" ", "\t", "\n", "\r"}

RECURSIVE TrimStart(_)
TrimStart(s) ==
  IF s = <<>> THEN s
  ELSE IF Head(s) \in WhiteSpace THEN TrimStart(Tail(s)) ELSE s

RECURSIVE TrimEnd(_)
TrimEnd(s) ==
  IF s = <<>> THEN s
  ELSE IF s[Len(s)] \in WhiteSpace THEN TrimEnd(SubSeq(s, 1, Len(s) - 1)) ELSE s

Trim(s) == TrimEnd(TrimStart(s))

UpperLetters ==
  <<"A", "B", "C", "D", "E", "F", "G", "H", "I", "J", "K", "L", "M",
    "N", "O", "P", "Q", "R", "S", "T", "U", "V", "W", "X", "Y", "Z">>

LowerLetters ==
  <<"a", "b", "c", "d", "e", "f", "g", "h", "i", "j", "k", "l", "m",
    "n", "o", "p", "q", "r", "s", "t", "u", "v", "w", "x", "y", "z">>

LowerChar(c) ==
  IF \E k \in 1..Len(UpperLetters) : UpperLetters[k] = c
  THEN LowerLetters[CHOOSE k \in 1..Len(UpperLetters) : UpperLetters[k] = c]
  ELSE c

ToLowerCase(s) == [i \in 1..Len(s) |-> LowerChar(s[i])]

\* s.includes(k): k occurs in s as a contiguous substring.
Includes(s, k) ==
  \E i \in 0..(Len(s) - Len(k)) : SubSeq(s, i + 1, i + Len(k)) = k

\* s.startsWith(k)
StartsWith(s, k) == Len(s) >= Len(k) /\ SubSeq(s, 1, Len(k)) = k

\* text.trim() on any value: a TypeError unless the receiver is a string.
CallTrim(v) ==
  IF v.t = "string" THEN Return(JStr(Trim(v.s)))
  ELSE Throw("TypeError", "text.trim is not a function")

-----------------------------------------------------------------------------
(* TextExtractor                                                           *)

jobKeywords ==
  << <<"j", "o", "b">>,
     <<"p", "o", "s", "i", "t", "i", "o", "n">>,
     <<"r", "o", "l", "e">>,
     <<"c", "a", "r", "e", "e", "r">>,
     <<"e", "m", "p", "l", "o", "y", "m", "e", "n", "t">>,
     <<"r", "e", "s", "p", "o", "n", "s", "i", "b", "i", "l", "i", "t", "i", "e", "s">>,
     <<"r", "e", "q", "u", "i", "r", "e", "m", "e", "n", "t", "s">>,
     <<"q", "u", "a", "l", "i", "f", "i", "c", "a", "t", "i", "o", "n", "s">>,
     <<"e", "x", "p", "e", "r", "i", "e", "n", "c", "e">>,
     <<"s", "k", "i", "l", "l", "s">>,
     <<"s", "a", "l", "a", "r", "y">>,
     <<"b", "e", "n", "e", "f", "i", "t", "s">>,
     <<"f", "u", "l", "l", "-", "t", "i", "m", "e">>,
     <<"p", "a", "r", "t", "-", "t", "i", "m", "e">>,
     <<"r", "e", "m", "o", "t", "e">>,
     <<"h", "y", "b", "r", "i", "d">>,
     <<"d", "e", "v", "e", "l", "o", "p", "e", "r">>,
     <<"e", "n", "g", "i", "n", "e", "e", "r">>,
     <<"m", "a", "n", "a", "g", "e", "r">>,
     <<"a", "n", "a", "l", "y", "s", "t">>,
     <<"c", "o", "o", "r", "d", "i", "n", "a", "t", "o", "r">>,
     <<"s", "p", "e", "c", "i", "a", "l", "i", "s", "t">>,
     <<"c", "o", "n", "s", "u", "l", "t", "a", "n", "t">>,
     <<"d", "i", "r", "e", "c", "t", "o", "r">>,
     <<"a", "s", "s", "i", "s", "t", "a", "n", "t">>,
     <<"l", "e", "a", "d">>,
     <<"s", "e", "n", "i", "o", "r">>,
     <<"j", "u", "n", "i", "o", "r">>,
     <<"i", "n", "t", "e", "r", "n">>,
     <<"c", "o", "n", "t", "r", "a", "c", "t">>,
     <<"f", "r", "e", "e", "l", "a", "n", "c", "e">>,
     <<"t", "e", "m", "p", "o", "r", "a", "r", "y">> >>

MinJobTextLength == 50

MinKeywordCount == 2

\* this.jobKeywords.filter((keyword) => lowerText.includes(keyword)).length
KeywordCount(lowerText) ==
  Cardinality({i \in 1..Len(jobKeywords) : Includes(lowerText, jobKeywords[i])})

\* The validator without its minimum-length check.
isValidJobText_NoLengthCheck(text) ==
  IF Falsy(text) \/ TypeOf(text) # "string" THEN Return(JBool(FALSE))
  ELSE LET trimmed == CallTrim(text) IN
       IF trimmed.type = "throw" THEN trimmed
       ELSE Return(JBool(KeywordCount(ToLowerCase(trimmed.value.s)) >= MinKeywordCount))

\* The validator asking for more than the two keyword hits.
isValidJobText_StrictCount(text) ==
  IF Falsy(text) \/ TypeOf(text) # "string" THEN Return(JBool(FALSE))
  ELSE LET trimmed == CallTrim(text) IN
       IF trimmed.type = "throw" THEN trimmed
       ELSE IF Len(trimmed.value.s) < MinJobTextLength THEN Return(JBool(FALSE))
       ELSE Return(JBool(KeywordCount(ToLowerCase(trimmed.value.s)) > MinKeywordCount))

isValidJobText(text) ==
  IF Falsy(text) \/ TypeOf(text) # "string" THEN Return(JBool(FALSE))
  ELSE LET trimmedText == CallTrim(text) IN
       IF trimmedText.type = "throw" THEN trimmedText
       ELSE IF Len(trimmedText.value.s) < MinJobTextLength THEN Return(JBool(FALSE))
       ELSE LET lowerText == ToLowerCase(trimmedText.value.s)
                keywordCount == KeywordCount(lowerText)
                isValid == keywordCount >= MinKeywordCount
            IN Return(JBool(isValid))

\* s with its leading characters of the class removed.
RECURSIVE SkipRun(_, _)
SkipRun(s, class) ==
  IF s # <<>> /\ Head(s) \in class THEN SkipRun(Tail(s), class) ELSE s

\* s.replace(/[class]+/g, rep): every maximal run of characters of the class
\* is replaced by rep.
RECURSIVE ReplaceRuns(_, _, _)
ReplaceRuns(s, class, rep) ==
  IF s = <<>> THEN <<>>
  ELSE IF Head(s) \in class
       THEN rep \o ReplaceRuns(SkipRun(Tail(s), class), class, rep)
       ELSE <<Head(s)>> \o ReplaceRuns(Tail(s), class, rep)

\* s.replace(/[class][class]/g, rep): every two adjacent characters of the
\* class, taken from the left, are replaced by rep.
RECURSIVE ReplacePairs(_, _, _)
ReplacePairs(s, class, rep) ==
  IF s = <<>> THEN <<>>
  ELSE IF Len(s) >= 2 /\ s[1] \in class /\ s[2] \in class
       THEN rep \o ReplacePairs(Tail(Tail(s)), class, rep)
       ELSE <<Head(s)>> \o ReplacePairs(Tail(s), class, rep)

\* cleanText collapsing whitespace two characters at a time.
cleanText_PairsOnly(text) ==
  IF Falsy(text) \/ TypeOf(text) # "string" THEN Return(JStr(<<>>))
  ELSE Return(JStr(Trim(
         ReplaceRuns(
           ReplaceRuns(
             ReplacePairs(text.s, WhiteSpace, <<" ">>),
             {"\n"}, <<"\n">>),
           {"\t"}, <<" ">>))))

\* cleanText without its final trim.
cleanText_NoTrim(text) ==
  IF Falsy(text) \/ TypeOf(text) # "string" THEN Return(JStr(<<>>))
  ELSE Return(JStr(
         ReplaceRuns(
           ReplaceRuns(
             ReplaceRuns(text.s, WhiteSpace, <<" ">>),
             {"\n"}, <<"\n">>),
           {"\t"}, <<" ">>)))

\* text.replace(/\s+/g, " ").replace(/\n+/g, "\n").replace(/\t+/g, " ").trim()
cleanText(text) ==
  IF Falsy(text) \/ TypeOf(text) # "string" THEN Return(JStr(<<>>))
  ELSE Return(JStr(Trim(
         ReplaceRuns(
           ReplaceRuns(
             ReplaceRuns(text.s, WhiteSpace, <<" ">>),
             {"\n"}, <<"\n">>),
           {"\t"}, <<" ">>))))

\* The characters that "." does not match and before which "$" matches
\* under the m flag.
LineTerminators == {"\n", "\r"}

Digits == {"0", "1", "2", "3", "4", "5", "6", "7", "8", "9"}

\* The number of leading characters of s, from position a on, that are in
\* the class.
RECURSIVE RunLength(_, _, _)
RunLength(s, a, class) ==
  IF a <= Len(s) /\ s[a] \in class THEN 1 + RunLength(s, a + 1, class) ELSE 0

\* The literal w, compared without regard to case (flag i), stands in s at
\* position a.
LiteralAt(s, a, w) ==
  /\ a >= 1
  /\ a + Len(w) - 1 <= Len(s)
  /\ ToLowerCase(SubSeq(s, a, a + Len(w) - 1)) = w

\* "^" under the m flag: position a is the start of the input or follows a
\* line terminator.
LineStart(s, a) == a = 1 \/ (a > 1 /\ a - 1 <= Len(s) /\ s[a - 1] \in LineTerminators)

\* The last position of the line that position q is on.
LineEnd(s, q) == q + RunLength(s, q, {s[i] : i \in 1..Len(s)} \ LineTerminators) - 1

\* ":\s*(.+)$" and ":\s*(.+?)(?:\n|$)" from position a (where the colon must
\* stand): \s* takes the longest run of whitespace after which a character
\* other than a line terminator follows, and the group takes the rest of
\* that character's line.  The result is the set holding the captured
\* group, or the empty set when there is no match.
ColonValueAt(s, a) ==
  IF ~(a <= Len(s) /\ s[a] = ":") THEN {}
  ELSE LET run == RunLength(s, a + 1, WhiteSpace)
           ks == {k \in 0..run : a + 1 + k <= Len(s) /\ s[a + 1 + k] \notin LineTerminators}
       IN IF ks = {} THEN {}
          ELSE LET k == CHOOSE x \in ks : \A y \in ks : y <= x
                   q == a + 1 + k
               IN {SubSeq(s, q, LineEnd(s, q))}

\* The positions just after one of the labels that stands at position p.
LabelEnds(s, p, labels) ==
  {p + Len(w) : w \in {l \in labels : LiteralAt(s, p, l)}}

\* The positions just after "job\s*title" standing at position p.
JobTitleEnds(s, p) ==
  IF LiteralAt(s, p, <<"j", "o", "b">>)
  THEN LET b == p + 3 + RunLength(s, p + 3, WhiteSpace)
       IN IF LiteralAt(s, b, <<"t", "i", "t", "l", "e">>) THEN {b + 5} ELSE {}
  ELSE {}

\* The captured groups of a labelled-value pattern matched at position p.
LabelledAt(s, p, labels) ==
  UNION {ColonValueAt(s, a) : a \in LabelEnds(s, p, labels)}

\* s.match(/(?:l1|l2|...):\s*(.+?)(?:\n|$)/im): the captured group of the
\* leftmost match, in a set; the empty set when nothing matches.
MatchLabelled(s, labels) ==
  LET ps == {p \in 1..Len(s) : LabelledAt(s, p, labels) # {}}
  IN IF ps = {} THEN {}
     ELSE LabelledAt(s, CHOOSE p \in ps : \A r \in ps : p <= r, labels)

TitleLabels ==
  { <<"p", "o", "s", "i", "t", "i", "o", "n">>, <<"r", "o", "l", "e">> }

CompanyLabels ==
  { <<"c", "o", "m", "p", "a", "n", "y">>,
    <<"e", "m", "p", "l", "o", "y", "e", "r">>,
    <<"o", "r", "g", "a", "n", "i", "z", "a", "t", "i", "o", "n">> }

LocationLabels ==
  { <<"l", "o", "c", "a", "t", "i", "o", "n">>,
    <<"b", "a", "s", "e", "d", " ", "i", "n">>,
    <<"o", "f", "f", "i", "c", "e">> }

\* The captured groups of /^(?:job\s*title|position|role):\s*(.+)$/im matched
\* at position p.
TitleAt(s, p) ==
  IF LineStart(s, p)
  THEN UNION {ColonValueAt(s, a) : a \in JobTitleEnds(s, p) \cup LabelEnds(s, p, TitleLabels)}
  ELSE {}

\* s.match(/^(?:job\s*title|position|role):\s*(.+)$/im)
MatchTitle(s) ==
  LET ps == {p \in 1..Len(s) : TitleAt(s, p) # {}}
  IN IF ps = {} THEN {}
     ELSE TitleAt(s, CHOOSE p \in ps : \A r \in ps : p <= r)

\* s.match(/^(.+?)(?:\n|$)/m): the first line that is not empty.
MatchFirstLine(s) ==
  LET ps == {p \in 1..Len(s) : LineStart(s, p) /\ s[p] \notin LineTerminators}
  IN IF ps = {} THEN {}
     ELSE LET p == CHOOSE x \in ps : \A r \in ps : x <= r
          IN {SubSeq(s, p, LineEnd(s, p))}

\* A field left null when its pattern does not match.
TrimmedGroup_Null(m) == IF m = {} THEN JNull ELSE JStr(Trim(CHOOSE g \in m : TRUE))

\* match ? match[1].trim() : ""
TrimmedGroup(m) == IF m = {} THEN JStr(<<>>) ELSE JStr(Trim(CHOOSE g \in m : TRUE))

\* The position after "[\d,]+" matched at position a, or 0.
AmountEnd(s, a) ==
  LET n == RunLength(s, a, Digits \cup {","}) IN IF n = 0 THEN 0 ELSE a + n

\* The position after "\$[\d,]+" matched at position a, or 0.
DollarAmountEnd(s, a) ==
  IF a <= Len(s) /\ s[a] = "$" THEN AmountEnd(s, a + 1) ELSE 0

\* The position after "(?:per\s+year|annually|k|thousand)" matched at
\* position b, or 0.
SalaryUnitEnd(s, b) ==
  IF LiteralAt(s, b, <<"p", "e", "r">>)
     /\ RunLength(s, b + 3, WhiteSpace) >= 1
     /\ LiteralAt(s, b + 3 + RunLength(s, b + 3, WhiteSpace), <<"y", "e", "a", "r">>)
  THEN b + 3 + RunLength(s, b + 3, WhiteSpace) + 4
  ELSE IF LiteralAt(s, b, <<"a", "n", "n", "u", "a", "l", "l", "y">>) THEN b + 8
  ELSE IF LiteralAt(s, b, <<"k">>) THEN b + 1
  ELSE IF LiteralAt(s, b, <<"t", "h", "o", "u", "s", "a", "n", "d">>) THEN b + 8
  ELSE 0

\* The position after the whole salary pattern matched at position p, or 0.
SalaryEnd(s, p) ==
  LET e1 == DollarAmountEnd(s, p)
  IN IF e1 = 0 THEN 0
     ELSE LET r == IF e1 <= Len(s) /\ s[e1] = "-" THEN DollarAmountEnd(s, e1 + 1) ELSE 0
              e2 == IF r = 0 THEN e1 ELSE r
              u == SalaryUnitEnd(s, e2 + RunLength(s, e2, WhiteSpace))
          IN IF u = 0 THEN e2 ELSE u

\* s.match(/\$[\d,]+(?:-\$[\d,]+)?(?:\s*(?:per\s+year|annually|k|thousand))?/i):
\* match[0] of the leftmost match, or "" when nothing matches.
MatchSalary(s) ==
  LET ps == {p \in 1..Len(s) : SalaryEnd(s, p) # 0}
  IN IF ps = {} THEN <<>>
     ELSE LET p == CHOOSE x \in ps : \A r \in ps : x <= r
          IN SubSeq(s, p, SalaryEnd(s, p) - 1)

extractKeyInfo(text) ==
  LET cleanedText == cleanText(text).value.s
      lowerText == ToLowerCase(cleanedText)
      titleMatch == IF MatchTitle(cleanedText) # {} THEN MatchTitle(cleanedText)
                    ELSE MatchFirstLine(cleanedText)
  IN Return([t |-> "object",
             title |-> TrimmedGroup(titleMatch),
             company |-> TrimmedGroup(MatchLabelled(cleanedText, CompanyLabels)),
             location |-> TrimmedGroup(MatchLabelled(cleanedText, LocationLabels)),
             salary |-> JStr(MatchSalary(cleanedText)),
             textLength |-> JNum(Len(cleanedText)),
             keywordCount |-> JNum(KeywordCount(lowerText))])

-----------------------------------------------------------------------------
(* Inputs of the TextExtractor calls: non-strings, and strings built from  *)
(* leading whitespace, a few words (keywords in mixed case, repeated, or   *)
(* embedded in a longer word), filler characters and trailing whitespace.  *)

MaxPad == 2

MaxFill == 50

Repeat(c, n) == [i \in 1..n |-> c]

Pads == {Repeat(c, n) : c \in {" ", "\n"}, n \in 0..MaxPad}

W_job == <<"j", "o", "b">>

W_Job == <<"J", "o", "b">>

W_ROLE == <<"R", "O", "L", "E">>

W_internal == <<"i", "n", "t", "e", "r", "n", "a", "l">>

W_Senior == <<"S", "e", "n", "i", "o", "r">>

W_Engineer == <<"E", "n", "g", "i", "n", "e", "e", "r">>

W_remote == <<"r", "e", "m", "o", "t", "e">>

RECURSIVE Concat(_)
Concat(ss) == IF ss = <<>> THEN <<>> ELSE Head(ss) \o Concat(Tail(ss))

WordLists ==
  { <<>>,
    << W_job >>,
    << W_job, <<" ">>, W_job >>,
    << W_Job, <<" ">>, W_ROLE >>,
    << W_internal >>,
    << W_Senior, <<" ">>, W_Engineer, <<",">>, W_remote >> }

FillLengths == {0} \cup ((MinJobTextLength - 14)..MaxFill)

StringInputs ==
  { l \o Concat(ws) \o Repeat("x", n) \o r :
      l \in Pads, ws \in WordLists, n \in FillLengths, r \in Pads }

TextInputs ==
  {JUndefined, JNull, JNum(0), JNum(42), JBool(TRUE)}
    \cup {JStr(s) : s \in StringInputs}

\* Inputs of cleanText: every string of up to MaxCleanLen characters over a
\* letter and the whitespace characters that the three patterns tell apart.
MaxCleanLen == 5

CleanAlphabet == {"a", " ", "\n", "\t"}

CleanInputs ==
  {JStr(s) : s \in UNION {[1..n -> CleanAlphabet] : n \in 0..MaxCleanLen}}

\* Inputs of extractKeyInfo: two lines of a posting and what separates them.
LocationLine == <<"L", "o", "c", "a", "t", "i", "o", "n", ":", " ", "R", "e", "m", "o", "t", "e">>

CompanyLine == <<"C", "o", "m", "p", "a", "n", "y", ":", " ", "A", "c", "m", "e">>

KeyInfoLines ==
  { <<>>,
     LocationLine,
     CompanyLine,
     <<"J", "o", "b", " ", "T", "i", "t", "l", "e", ":", " ", " ", "D", "e", "v", " ">>,
     <<"R", "O", "L", "E", ":", "d", "e", "v">>,
     <<"S", "e", "n", "i", "o", "r", " ", "E", "n", "g", "i", "n", "e", "e", "r">>,
     <<"b", "a", "s", "e", "d", " ", "i", "n", ":", "P", "a", "r", "i", "s">>,
     <<"E", "m", "p", "l", "o", "y", "e", "r", ":", " ">>,
     <<"$", "9", "0", ",", "0", "0", "0", "-", "$", "1", "2", "0", ",", "0", "0", "0", " ", "p", "e", "r", " ", "y", "e", "a", "r">>,
     <<"p", "a", "y", " ", "$", "5", "0", "K">> }

LineBreaks == { <<"\n">>, <<"\n", "\n">>, <<"\r", "\n">> }

LineSeparators == LineBreaks \cup { <<" ">> }

KeyInfoInputs ==
  {JStr(l1 \o sep \o l2) : l1 \in KeyInfoLines, sep \in LineSeparators, l2 \in KeyInfoLines}

-----------------------------------------------------------------------------
(* Calls of the TextExtractor methods.  The argument is drawn when the     *)
(* state is set up; a call applies one method to it.                       *)

\* No TextExtractor call is in progress or was made.
TextIdle ==
  /\ txtOp = "none"
  /\ txtArg = JUndefined
  /\ txtRet = Return(JUndefined)

TextInit ==
  /\ txtOp = "none"
  /\ txtArg \in TextInputs \cup CleanInputs \cup KeyInfoInputs
  /\ txtRet = Return(JUndefined)

CallIsValidJobText ==
  /\ txtOp = "none"
  /\ txtOp' = "isValidJobText"
  /\ txtArg' = txtArg
  /\ txtRet' = isValidJobText(txtArg)
  /\ UNCHANGED <<serviceVars, popupVars>>

CallCleanText ==
  /\ txtOp = "none"
  /\ txtOp' = "cleanText"
  /\ txtArg' = txtArg
  /\ txtRet' = cleanText(txtArg)
  /\ UNCHANGED <<serviceVars, popupVars>>

\* The caller passes the cleaned text to cleanText once more.
CallCleanTextAgain ==
  /\ txtOp = "cleanText"
  /\ txtRet.type = "return"
  /\ txtOp' = "cleanTextAgain"
  /\ txtArg' = txtRet.value
  /\ txtRet' = cleanText(txtRet.value)
  /\ UNCHANGED <<serviceVars, popupVars>>

CallExtractKeyInfo ==
  /\ txtOp = "none"
  /\ txtOp' = "extractKeyInfo"
  /\ txtArg' = txtArg
  /\ txtRet' = extractKeyInfo(txtArg)
  /\ UNCHANGED <<serviceVars, popupVars>>

-----------------------------------------------------------------------------
(* URLs and other string literals of the scripts.                          *)

\* "https://localhost:3000"
LocalhostUrl == <<"h", "t", "t", "p", "s", ":", "/", "/", "l", "o", "c", "a", "l", "h", "o", "s", "t", ":", "3", "0", "0", "0">>

\* "https://freecov.vercel.app"
FreecovUrl == <<"h", "t", "t", "p", "s", ":", "/", "/", "f", "r", "e", "e", "c", "o", "v", ".", "v", "e", "r", "c", "e", "l", ".", "a", "p", "p">>

\* "/api/auto-populate-job"
AutoPopulatePath == <<"/", "a", "p", "i", "/", "a", "u", "t", "o", "-", "p", "o", "p", "u", "l", "a", "t", "e", "-", "j", "o", "b">>

\* "/api/health"
HealthPath == <<"/", "a", "p", "i", "/", "h", "e", "a", "l", "t", "h">>

HttpPrefix == <<"h", "t", "t", "p", ":", "/", "/">>

HttpsPrefix == <<"h", "t", "t", "p", "s", ":", "/", "/">>

\* this.apiBaseUrl as the constructor of each background script sets it.
ServiceDefaultUrl(v) == IF v = "legacy" THEN FreecovUrl ELSE LocalhostUrl

\* The id under which each background script registers its menu item.
MenuItemId(v) == IF v = "dist" THEN "extractJobInfo" ELSE "extractJob"

-----------------------------------------------------------------------------
(* The environment: pages, selections, typed settings, server responses.   *)

\* Tabs: a job board and another site.
JobTab == [url |-> <<"h", "t", "t", "p", "s", ":", "/", "/", "w", "w", "w", ".", "I", "n", "d", "e", "e", "d", ".", "c", "o", "m", "/", "j">>, title |-> "Jobs"]

OtherTab == [url |-> <<"h", "t", "t", "p", "s", ":", "/", "/", "a", ".", "o", "r", "g", "/">>, title |-> "News"]

Tabs == {JobTab, OtherTab}

\* The end-to-end example of the specification, with whitespace around it.
ExampleJobText ==
  <<"S", "o", "f", "t", "w", "a", "r", "e", " ", "E", "n", "g", "i", "n",
    "e", "e", "r", " ", "P", "o", "s", "i", "t", "i", "o", "n", ".", " ",
    "R", "e", "q", "u", "i", "r", "e", "m", "e", "n", "t", "s", ":", " ",
    "5", " ", "y", "e", "a", "r", "s", " ", "P", "y", "t", "h", "o", "n",
    " ", "e", "x", "p", "e", "r", "i", "e", "n", "c", "e", ".", " ", "R",
    "e", "s", "p", "o", "n", "s", "i", "b", "i", "l", "i", "t", "i", "e",
    "s", ":", " ", "c", "o", "d", "e", " ", "r", "e", "v", "i", "e", "w",
    ".">>

\* What the user may have selected: nothing, only whitespace, a short text
\* without keywords, and a job posting, the last two with whitespace around.
BlankSelection == <<" ", " ">>

ShortSelection == <<" ", "h", "i", "\n">>

JobSelection == <<" ">> \o ExampleJobText \o <<"\n">>

Selections == {<<>>, BlankSelection, ShortSelection, JobSelection}

ScanMinLength == 100

ScanLimit == 2000

\* setTimeout(..., 2000) of the automatic scan.
ScanDelayMs == 2000

ScanStep == ScanDelayMs \div 2

\* Page bodies met by the automatic scan: no keyword; one scan keyword and
\* 100 characters after trimming; one scan keyword and 101 characters.
PageNoKeyword == Repeat("x", ScanMinLength + 1)

PageAtLimit == <<" ">> \o <<"s", "k", "i", "l", "l", "s">> \o Repeat("x", ScanMinLength - 6)

PageOverLimit == <<" ">> \o <<"s", "k", "i", "l", "l", "s">> \o Repeat("x", ScanMinLength - 5)

PageBodies == {PageNoKeyword, PageAtLimit, PageOverLimit}

\* What the user may type into the API-domain field.
TypedDomains ==
  { <<" ">>,
    <<" ", "a", ".", "i", "o", " ">>,
    <<"b", "a", "d", " ", "h", "o", "s", "t">> }

\* Server answers to a fetch: a transport failure, or a response with a
\* status and a body.
JobData == [t |-> "object", jobTitle |-> "Engineer", companyName |-> ""]

Rejected == [kind |-> "reject", message |-> <<"NetworkError when attempting to fetch resource.">>]

Response(status, statusText, parses, body) ==
  [kind |-> "response", status |-> status, statusText |-> statusText,
   parses |-> parses, body |-> body]

Body(success, data, error) == [success |-> success, data |-> data, error |-> error]

NoJson == Body(FALSE, JUndefined, <<>>)

\* Answers to a submission.
SubmitOutcomes ==
  { Rejected,
    Response(200, "OK", TRUE, Body(TRUE, JobData, <<>>)),
    Response(200, "OK", TRUE, Body(FALSE, JUndefined, <<"Could not parse job">>)),
    Response(300, "Multiple Choices", FALSE, NoJson),
    Response(500, "Internal Server Error", FALSE, NoJson) }

\* Answers to a health check.
HealthOutcomes ==
  { Rejected,
    Response(199, "", FALSE, NoJson),
    Response(200, "OK", TRUE, Body(TRUE, JUndefined, <<>>)),
    Response(299, "", FALSE, NoJson),
    Response(300, "Multiple Choices", FALSE, NoJson),
    Response(500, "Internal Server Error", FALSE, NoJson) }

Outcomes(kind) == IF kind = "clientHealth" THEN HealthOutcomes ELSE SubmitOutcomes

\* response.ok
ResponseOk(status) == status >= 200 /\ status <= 299

-----------------------------------------------------------------------------
(* Bounds of the model.                                                    *)

\* Events a background script sees in one run: handler invocations and
\* edits of the settings in the popup.
MaxActions == 2

\* The same for a page that uses APIClient: calls of its methods and edits
\* of the settings.
MaxCalls == 3

Room ==
  Len(tasks) + saves < (IF variant = "client" THEN MaxCalls ELSE MaxActions)

-----------------------------------------------------------------------------
(* The settings store and the popup that edits it.                         *)

EmptyStorage ==
  [apiBaseUrl |-> JUndefined, autoExtract |-> JUndefined,
   showNotifications |-> JUndefined]

NoStatus == [text |-> "", type |-> ""]

\* new URL(s) succeeds: an http(s) scheme and a non-empty host without a
\* forbidden host code point.
ForbiddenHostChars == {" ", "\t", "\n", "<", ">", "[", "]", "^", "|", "%", "\\"}

RECURSIVE HostOf(_)
HostOf(s) ==
  IF s = <<>> \/ Head(s) \in {"/", "?", "#"} THEN <<>>
  ELSE <<Head(s)>> \o HostOf(Tail(s))

AfterScheme(s) ==
  IF StartsWith(s, HttpsPrefix) THEN SubSeq(s, Len(HttpsPrefix) + 1, Len(s))
  ELSE SubSeq(s, Len(HttpPrefix) + 1, Len(s))

IsParseableUrl(s) ==
  /\ StartsWith(s, HttpPrefix) \/ StartsWith(s, HttpsPrefix)
  /\ HostOf(AfterScheme(s)) # <<>>
  /\ \A k \in 1..Len(HostOf(AfterScheme(s))) :
       HostOf(AfterScheme(s))[k] \notin ForbiddenHostChars

\* The domain as saveApiDomain formats it before validation.
FormatDomain(domain) ==
  LET formattedDomain == Trim(domain) IN
  IF ~StartsWith(formattedDomain, HttpPrefix) /\ ~StartsWith(formattedDomain, HttpsPrefix)
  THEN HttpsPrefix \o formattedDomain
  ELSE formattedDomain

\* An install handler that writes the defaults whatever the reason.
HandleInstallation_Always ==
  \E reason \in {"install", "update"} :
    /\ variant \in {"firefox", "legacy"}
    /\ installed = "no"
    /\ installed' = reason
    /\ storage' = [apiBaseUrl |-> JStr(ServiceDefaultUrl(variant)),
                   autoExtract |-> JBool(TRUE),
                   showNotifications |-> JBool(TRUE)]
    /\ UNCHANGED <<textVars, popupVars, variant, saves, popupStatus, client, tasks,
                   requests, notifications>>

\* runtime.onInstalled: the background scripts with an install handler write
\* the default configuration when the reason is "install".
HandleInstallation ==
  \E reason \in {"install", "update"} :
    /\ variant \in {"firefox", "legacy"}
    /\ installed = "no"
    /\ installed' = reason
    /\ storage' = IF reason = "install"
                  THEN [apiBaseUrl |-> JStr(ServiceDefaultUrl(variant)),
                        autoExtract |-> JBool(TRUE),
                        showNotifications |-> JBool(TRUE)]
                  ELSE storage
    /\ UNCHANGED <<textVars, popupVars, variant, saves, popupStatus, client, tasks,
                   requests, notifications>>

\* A change event of one of the popup's checkboxes: saveSetting(key, checked).
\* A failed storage write is caught and leaves the store as it was.
ToggleSetting ==
  \E key \in {"autoExtract", "showNotifications"}, checked \in BOOLEAN,
     written \in BOOLEAN :
    /\ Room
    /\ saves' = saves + 1
    /\ storage' = IF written THEN [storage EXCEPT ![key] = JBool(checked)]
                  ELSE storage
    /\ UNCHANGED <<textVars, popupVars, variant, installed, popupStatus, client, tasks,
                   requests, notifications>>

\* A saveApiDomain that stores the formatted text without validating it.
saveApiDomain_NoValidation(domain, written) ==
  /\ storage' = IF written
                 THEN [storage EXCEPT !.apiBaseUrl =
                         IF Trim(domain) # <<>> THEN JStr(FormatDomain(domain))
                         ELSE JStr(LocalhostUrl)]
                 ELSE storage
  /\ UNCHANGED popupStatus

\* PopupManager.saveApiDomain(domain); written tells whether the write to the
\* store succeeds (saveSetting catches a failed write).
saveApiDomain(domain, written) ==
  IF Trim(domain) # <<>>
  THEN IF IsParseableUrl(FormatDomain(domain))
       THEN /\ storage' = IF written
                          THEN [storage EXCEPT !.apiBaseUrl = JStr(FormatDomain(domain))]
                          ELSE storage
            /\ UNCHANGED popupStatus
       ELSE /\ popupStatus' = [text |-> "Invalid URL format", type |-> "error"]
            /\ UNCHANGED storage
  ELSE /\ storage' = IF written
                     THEN [storage EXCEPT !.apiBaseUrl = JStr(LocalhostUrl)]
                     ELSE storage
       /\ UNCHANGED popupStatus

\* The debounced input of the API-domain field, as the background scripts
\* see it: saveApiDomain(domain) has run.
SaveApiDomain ==
  \E domain \in TypedDomains, written \in BOOLEAN :
    /\ Room
    /\ saves' = saves + 1
    /\ saveApiDomain(domain, written)
    /\ UNCHANGED <<textVars, popupVars, variant, installed, client, tasks, requests,
                   notifications>>

-----------------------------------------------------------------------------
(* The popup on its own: loading the settings and the debounced            *)
(* API-domain field.                                                       *)

\* setTimeout(..., 1000) of the API-domain field.
DebounceMs == 1000

\* Time passes in steps of half the debounce delay.
TickStep == DebounceMs \div 2

\* Input events and steps of time in one run of the popup.
MaxInputs == 3

MaxTicks == 5

NoTimer == [armed |-> FALSE, left |-> 0]

Timer(ms) == [armed |-> TRUE, left |-> ms]

\* The timer's delay has elapsed and its callback has not run yet.
TimerDue(timer) == timer.armed /\ timer.left = 0

\* The popup before it is opened.
PopupIdle ==
  /\ popup = "closed"
  /\ shown = [autoExtract |-> FALSE, showNotifications |-> FALSE]
  /\ apiDomainValue = <<>>
  /\ domainTimeout = NoTimer
  /\ now = 0
  /\ inputLog = <<>>
  /\ saveLog = <<>>
  /\ testButton = [disabled |-> FALSE, textContent |-> "Test"]
  /\ test = [n |-> 0, pc |-> "idle", url |-> <<>>, left |-> 0, result |-> NoStatus]
  /\ hideTimers = {}

\* What the store may hold when the popup is opened: nothing, the defaults
\* written at installation, or the user's own choices.
StoredUrl == <<"h", "t", "t", "p", "s", ":", "/", "/", "b", ".", "i", "o">>

PopupStorages ==
  { EmptyStorage,
    [apiBaseUrl |-> JStr(LocalhostUrl), autoExtract |-> JBool(TRUE),
     showNotifications |-> JBool(TRUE)],
    [apiBaseUrl |-> JStr(StoredUrl), autoExtract |-> JBool(FALSE),
     showNotifications |-> JBool(FALSE)] }

\* PopupManager.init: loadSettings fills the controls, then the listeners
\* are added.
LoadSettings ==
  \E readOk \in BOOLEAN :
    /\ popup = "closed"
    /\ popup' = "open"
    /\ shown' = IF readOk
                THEN [autoExtract |-> storage.autoExtract # JBool(FALSE),
                      showNotifications |-> storage.showNotifications # JBool(FALSE)]
                ELSE [autoExtract |-> TRUE, showNotifications |-> TRUE]
    /\ apiDomainValue' = IF readOk /\ ~Falsy(storage.apiBaseUrl)
                         THEN storage.apiBaseUrl.s
                         ELSE LocalhostUrl
    /\ UNCHANGED <<textVars, serviceVars, domainTimeout, now, inputLog, saveLog,
                   connectionVars>>

\* An input event whose handler leaves a pending timer running.
DomainInput_NoRestart ==
  \E value \in TypedDomains :
    /\ popup = "open"
    /\ Len(inputLog) < MaxInputs
    /\ ~TimerDue(domainTimeout)
    /\ apiDomainValue' = value
    /\ domainTimeout' = IF domainTimeout.armed THEN domainTimeout
                        ELSE Timer(DebounceMs)
    /\ inputLog' = Append(inputLog, [value |-> value, at |-> now])
    /\ UNCHANGED <<textVars, serviceVars, popup, shown, now, saveLog, connectionVars>>

\* An input event of the API-domain field: the pending timer is cleared and
\* a new one is set.  A timer that is due runs before the next event.
DomainInput ==
  \E value \in TypedDomains :
    /\ popup = "open"
    /\ Len(inputLog) < MaxInputs
    /\ ~TimerDue(domainTimeout)
    /\ apiDomainValue' = value
    /\ domainTimeout' = Timer(DebounceMs)
    /\ inputLog' = Append(inputLog, [value |-> value, at |-> now])
    /\ UNCHANGED <<textVars, serviceVars, popup, shown, now, saveLog, connectionVars>>

\* Time passes in the open popup; a timer that is due runs first.
PopupTimePasses ==
  /\ popup = "open"
  /\ ~TimerDue(domainTimeout)
  /\ now < MaxTicks * TickStep
  /\ now' = now + TickStep
  /\ domainTimeout' = IF domainTimeout.armed
                      THEN Timer(domainTimeout.left - TickStep)
                      ELSE domainTimeout
  /\ UNCHANGED <<textVars, serviceVars, popup, shown, apiDomainValue, inputLog,
                 saveLog, connectionVars>>

\* The debounce timer fires: saveApiDomain(e.target.value).
DomainTimerFires ==
  \E written \in BOOLEAN :
    /\ TimerDue(domainTimeout)
    /\ domainTimeout' = NoTimer
    /\ saveApiDomain(apiDomainValue, written)
    /\ saveLog' = Append(saveLog,
         [domain |-> apiDomainValue, at |-> now, before |-> storage.apiBaseUrl,
          after |-> storage'.apiBaseUrl, status |-> popupStatus'])
    /\ UNCHANGED <<textVars, variant, installed, saves, client, tasks, requests,
                   notifications, popup, shown, apiDomainValue, now, inputLog,
                   connectionVars>>

-----------------------------------------------------------------------------
(* The popup's connection test and its status line.  The check mark and    *)
(* the cross that start the status texts are left out.                     *)

\* AbortSignal.timeout(5000)
TestTimeoutMs == 5000

\* setTimeout(..., 3000) of a success status.
HideDelayMs == 3000

\* Time passes in steps of one second.
ConnectionStep == 1000

\* Clicks on Test in one run of the popup.
MaxClicks == 2

\* The fetch was aborted by its timeout signal.
TimedOut == [kind |-> "timeout"]

\* showConnectionStatus(message, type)
showConnectionStatus(message, type) ==
  /\ popupStatus' = [text |-> message, type |-> type]
  /\ hideTimers' = IF type = "success" THEN hideTimers \cup {HideDelayMs}
                   ELSE hideTimers

\* The address testApiConnection fetches: the field's value, the default when
\* it is empty, with https:// in front when it has no protocol.
TestDomain(value) ==
  FormatDomain(IF Trim(value) = <<>> THEN LocalhostUrl ELSE value)

\* A click on Test: testApiConnection up to its fetch.  A disabled button
\* gets no click.
TestClick ==
  /\ popup = "open"
  /\ ~testButton.disabled
  /\ test.n < MaxClicks
  /\ testButton' = [disabled |-> TRUE, textContent |-> "Testing..."]
  /\ showConnectionStatus("Testing connection...", "loading")
  /\ test' = [n |-> test.n + 1, pc |-> "fetch",
              url |-> TestDomain(apiDomainValue) \o HealthPath,
              left |-> TestTimeoutMs, result |-> NoStatus]
  /\ UNCHANGED <<textVars, variant, storage, installed, saves, client, tasks, requests,
                 notifications, popup, shown, apiDomainValue, domainTimeout, now,
                 inputLog, saveLog>>

\* How the fetch of the test may settle: with an answer or a transport
\* failure while the timeout has not run out, by the timeout when it has; a
\* URL that cannot be parsed makes fetch reject.
TestOutcomes ==
  IF ~IsParseableUrl(test.url) THEN {Rejected}
  ELSE IF test.left = 0 THEN {TimedOut}
  ELSE HealthOutcomes

\* The status testApiConnection shows for an outcome.
TestStatus(outcome) ==
  IF outcome.kind = "response"
  THEN IF ResponseOk(outcome.status)
       THEN [text |-> "Connection successful!", type |-> "success"]
       ELSE [text |-> "Connection failed: " \o ToString(outcome.status), type |-> "error"]
  ELSE IF outcome.kind = "timeout"
  THEN [text |-> "Connection timeout", type |-> "error"]
  ELSE [text |-> "Connection failed", type |-> "error"]

\* A test that resets the button only after an answer.
TestSettles_NoFinally ==
  \E outcome \in TestOutcomes :
    /\ test.pc = "fetch"
    /\ showConnectionStatus(TestStatus(outcome).text, TestStatus(outcome).type)
    /\ testButton' = IF outcome.kind = "response"
                     THEN [disabled |-> FALSE, textContent |-> "Test"]
                     ELSE testButton
    /\ test' = [test EXCEPT !.pc = "done", !.left = 0, !.result = TestStatus(outcome)]
    /\ UNCHANGED <<textVars, variant, storage, installed, saves, client, tasks, requests,
                   notifications, popup, shown, apiDomainValue, domainTimeout, now,
                   inputLog, saveLog>>

\* The fetch of the test settles: testApiConnection from the await to the end
\* of its finally block.
TestSettles ==
  \E outcome \in TestOutcomes :
    /\ test.pc = "fetch"
    /\ showConnectionStatus(TestStatus(outcome).text, TestStatus(outcome).type)
    /\ testButton' = [disabled |-> FALSE, textContent |-> "Test"]
    /\ test' = [test EXCEPT !.pc = "done", !.left = 0, !.result = TestStatus(outcome)]
    /\ UNCHANGED <<textVars, variant, storage, installed, saves, client, tasks, requests,
                   notifications, popup, shown, apiDomainValue, domainTimeout, now,
                   inputLog, saveLog>>

\* A timer of the status line or of the test is due.
ConnectionTimerDue == 0 \in hideTimers \/ (test.pc = "fetch" /\ test.left = 0)

\* A second passes while a timer of the status line or of the test runs; a
\* timer that is due runs first.
ConnectionTimePasses ==
  /\ hideTimers # {} \/ test.pc = "fetch"
  /\ ~ConnectionTimerDue
  /\ hideTimers' = {left - ConnectionStep : left \in hideTimers}
  /\ test' = IF test.pc = "fetch" THEN [test EXCEPT !.left = @ - ConnectionStep]
             ELSE test
  /\ UNCHANGED <<textVars, serviceVars, popup, shown, apiDomainValue, domainTimeout,
                 now, inputLog, saveLog, testButton>>

\* The timer of a success status fires: the status line is emptied.
HideTimerFires ==
  /\ 0 \in hideTimers
  /\ hideTimers' = hideTimers \ {0}
  /\ popupStatus' = [text |-> "", type |-> ""]
  /\ UNCHANGED <<textVars, variant, storage, installed, saves, client, tasks, requests,
                 notifications, popup, shown, apiDomainValue, domainTimeout, now,
                 inputLog, saveLog, testButton, test>>

-----------------------------------------------------------------------------
(* Requests, results and notifications.                                    *)

NoBody == [none |-> TRUE]

\* A fetch whose body leaves out the page title.
PostRequest_NoTitle(i, base, text, url, title) ==
  [task |-> i, method |-> "POST", url |-> base \o AutoPopulatePath,
   body |-> [selectedText |-> text, sourceUrl |-> url]]

\* The fetch of sendJobToWebApp.
PostRequest(i, base, text, url, title) ==
  [task |-> i, method |-> "POST", url |-> base \o AutoPopulatePath,
   body |-> [selectedText |-> text, sourceUrl |-> url, pageTitle |-> title]]

\* The fetch of healthCheck.
GetRequest(i, base) ==
  [task |-> i, method |-> "GET", url |-> base \o HealthPath, body |-> NoBody]

NoNotification == [title |-> "", message |-> <<>>]

NoResult == [type |-> "none"]

NoAnswer == [kind |-> "none"]

\* A setting the run has not read, or could not read.
Unread == [t |-> "unread"]

Success(data) == [success |-> TRUE, data |-> data, error |-> <<>>]

Failure(message) == [success |-> FALSE, data |-> JUndefined, error |-> message]

\* A sendJobToWebApp whose error for a non-2xx response names only the
\* status text.
SendCompletion_NoStatus(outcome, prefix) ==
  IF outcome.kind = "reject" THEN Throw("TypeError", outcome.message)
  ELSE IF ~ResponseOk(outcome.status)
       THEN Throw("Error", <<prefix, outcome.statusText>>)
  ELSE IF ~outcome.parses
       THEN Throw("SyntaxError", <<"JSON.parse: unexpected end of data">>)
  ELSE Return(outcome.body)

\* How sendJobToWebApp completes once its fetch has settled; prefix is the
\* text its error message starts with.
SendCompletion(outcome, prefix) ==
  IF outcome.kind = "reject" THEN Throw("TypeError", outcome.message)
  ELSE IF ~ResponseOk(outcome.status)
       THEN Throw("Error", <<prefix, ToString(outcome.status), " ", outcome.statusText>>)
  ELSE IF ~outcome.parses
       THEN Throw("SyntaxError", <<"JSON.parse: unexpected end of data">>)
  ELSE Return(outcome.body)

\* An extractJobInfo that reports every failure with one fixed message.
ExtractJobInfoDist_Generic(sent) ==
  IF sent.type = "throw" THEN Failure(<<"Failed to send job information to web app">>)
  ELSE Success(sent.value)

\* extractJobInfo of the dist script, given how sendJobToWebApp completed.
ExtractJobInfoDist(sent) ==
  IF sent.type = "throw" THEN Failure(sent.message) ELSE Success(sent.value)

\* extractJobInfo of the other two scripts: the body's own success flag is
\* checked as well.
ExtractJobInfoChecked(sent) ==
  IF sent.type = "throw" THEN Failure(sent.message)
  ELSE IF ~sent.value.success
       THEN Failure(IF sent.value.error # <<>> THEN sent.value.error
                    ELSE <<"Failed to send job information to web app">>)
  ELSE Success(sent.value.data)

ExtractJobInfo(v, sent) ==
  IF v = "dist" THEN ExtractJobInfoDist(sent) ELSE ExtractJobInfoChecked(sent)

\* The notification handleJobExtraction and handleKeyboardShortcut of the dist
\* script ask showNotification for.
DistNotification(result) ==
  IF result.success
  THEN [title |-> "Job Info Extracted",
        message |-> <<"Job information has been sent to the web app!">>]
  ELSE [title |-> "Extraction Failed",
        message |-> <<"Failed to extract job information. Please try again.">>]

UnexpectedError ==
  [title |-> "Extraction Error",
   message |-> <<"An unexpected error occurred during extraction">>]

\* The notification processJobExtraction (handleContextMenuClick in the legacy
\* script) creates; reading result.data.jobTitle throws when data is missing.
ProcessNotification(result) ==
  IF result.success
  THEN IF result.data.t # "object" THEN UnexpectedError
       ELSE [title |-> "Job Added Successfully!",
             message |-> <<IF result.data.jobTitle = "" THEN "Job"
                           ELSE result.data.jobTitle,
                           " - ",
                           IF result.data.companyName = "" THEN "Company"
                           ELSE result.data.companyName,
                           " added to your cover letter generator">>]
  ELSE [title |-> "Extraction Failed",
        message |-> IF result.error # <<>> THEN result.error
                    ELSE <<"Failed to extract job information">>]

NoTextSelectedDist ==
  [title |-> "No Text Selected",
   message |-> <<"Please select some text first, then use the keyboard shortcut.">>]

NoTextSelected ==
  [title |-> "No Text Selected",
   message |-> <<"Please select some job-related text first, then use the keyboard shortcut">>]

HandlerErrorDist ==
  [title |-> "Error", message |-> <<"An error occurred during job extraction.">>]

\* settings.apiBaseUrl || this.apiBaseUrl, or this.apiBaseUrl when the read
\* of the store fails.
getApiBaseUrl(readOk, settings, v) ==
  IF readOk /\ ~Falsy(settings.apiBaseUrl) THEN settings.apiBaseUrl.s
  ELSE ServiceDefaultUrl(v)

\* jobSites.some((site) => url.toLowerCase().includes(site))
jobSites ==
  { <<"l", "i", "n", "k", "e", "d", "i", "n", ".", "c", "o", "m", "/", "j", "o", "b", "s">>,
    <<"i", "n", "d", "e", "e", "d", ".", "c", "o", "m">>,
    <<"g", "l", "a", "s", "s", "d", "o", "o", "r", ".", "c", "o", "m">>,
    <<"m", "o", "n", "s", "t", "e", "r", ".", "c", "o", "m">>,
    <<"z", "i", "p", "r", "e", "c", "r", "u", "i", "t", "e", "r", ".", "c", "o", "m">>,
    <<"c", "a", "r", "e", "e", "r", "b", "u", "i", "l", "d", "e", "r", ".", "c", "o", "m">>,
    <<"d", "i", "c", "e", ".", "c", "o", "m">>,
    <<"a", "n", "g", "e", "l", ".", "c", "o">>,
    <<"s", "t", "a", "c", "k", "o", "v", "e", "r", "f", "l", "o", "w", ".", "c", "o", "m", "/", "j", "o", "b", "s">>,
    <<"g", "i", "t", "h", "u", "b", ".", "c", "o", "m", "/", "j", "o", "b", "s">>,
    <<"r", "e", "m", "o", "t", "e", ".", "c", "o">>,
    <<"w", "e", "w", "o", "r", "k", "r", "e", "m", "o", "t", "e", "l", "y", ".", "c", "o", "m">> }

isJobPostingSite(url) == \E site \in jobSites : Includes(ToLowerCase(url), site)

\* The keywords of the in-page scan.
scanKeywords ==
  { <<"r", "e", "s", "p", "o", "n", "s", "i", "b", "i", "l", "i", "t", "i", "e", "s">>,
    <<"r", "e", "q", "u", "i", "r", "e", "m", "e", "n", "t", "s">>,
    <<"q", "u", "a", "l", "i", "f", "i", "c", "a", "t", "i", "o", "n", "s">>,
    <<"e", "x", "p", "e", "r", "i", "e", "n", "c", "e">>,
    <<"s", "k", "i", "l", "l", "s">> }

\* The value of the script handleTabUpdate injects: the first ScanLimit
\* characters of the body text when it holds a scan keyword, else null.
ScanScript(bodyText) ==
  IF \E keyword \in scanKeywords : Includes(ToLowerCase(bodyText), keyword)
  THEN JStr(SubSeq(bodyText, 1, IF Len(bodyText) < ScanLimit THEN Len(bodyText) ELSE ScanLimit))
  ELSE JNull

\* A getSelectedText that returns the selection as it stands.
getSelectedText_NoTrim(hasRange, selection) ==
  IF ~hasRange THEN JNull
  ELSE IF Trim(selection) = <<>> THEN JNull
  ELSE JStr(selection)

\* JobExtractor.getSelectedText of the content script.
getSelectedText(hasRange, selection) ==
  IF ~hasRange THEN JNull
  ELSE IF Trim(selection) = <<>> THEN JNull
  ELSE JStr(Trim(selection))

\* What a run of the content script's handleMessage did: the responses it
\* passed to sendResponse, in order.
Sent(responses) == Return([t |-> "responses", sent |-> responses])

SelectedTextResponse(selectedText) == [key |-> "selectedText", value |-> selectedText]

ReceivedResponse == [key |-> "received", value |-> JBool(TRUE)]

\* A handleMessage that goes on to acknowledge after it has answered.
handleMessage_NoReturn(message) ==
  IF message.action = "hideUI" THEN Sent(<<ReceivedResponse>>)
  ELSE IF message.action = "getSelectedText"
  THEN Sent(<<SelectedTextResponse(getSelectedText(message.hasRange, message.selection)),
              ReceivedResponse>>)
  ELSE Sent(<<ReceivedResponse>>)

\* JobExtractor.handleMessage of the content script that knows the
\* getSelectedText request.
handleMessage(message) ==
  IF message.action = "hideUI" THEN Sent(<<ReceivedResponse>>)
  ELSE IF message.action = "getSelectedText"
  THEN Sent(<<SelectedTextResponse(getSelectedText(message.hasRange, message.selection))>>)
  ELSE Sent(<<ReceivedResponse>>)

\* JobExtractor.handleMessage of the content script for the context menu
\* only: every message is acknowledged.
handleMessagePlain(message) == Sent(<<ReceivedResponse>>)

\* The messages a content script may get, with the state of the page's
\* selection at that moment.
MessageActions == {"hideUI", "getSelectedText", "extractJob", "ping", "undefined"}

MessageInputs ==
  {[t |-> "message", action |-> a, hasRange |-> r, selection |-> sel] :
     a \in MessageActions, r \in BOOLEAN, sel \in Selections}

MessageInit ==
  /\ txtOp = "none"
  /\ txtArg \in MessageInputs
  /\ txtRet = Return(JUndefined)

CallHandleMessage ==
  /\ txtOp = "none"
  /\ txtOp' = "handleMessage"
  /\ txtArg' = txtArg
  /\ txtRet' = handleMessage(txtArg)
  /\ UNCHANGED <<serviceVars, popupVars>>

CallHandleMessagePlain ==
  /\ txtOp = "none"
  /\ txtOp' = "handleMessagePlain"
  /\ txtArg' = txtArg
  /\ txtRet' = handleMessagePlain(txtArg)
  /\ UNCHANGED <<serviceVars, popupVars>>

-----------------------------------------------------------------------------
(* Handler invocations.  A task is one run of an asynchronous handler or   *)
(* client method; pc names the await it is suspended at.                   *)

\* kind: the handler or method; sel: what the user had selected when a
\* selection handler was invoked; text, url, title: the arguments the handler
\* passes on; base: the base URL it fetched with; seen: the apiBaseUrl it read
\* from the store; answer: what the server answered; pending: the
\* notification showNotification was asked for; res: the result of
\* extractJobInfo, or the completion of a client method; flag: the setting
\* the run read from the store (autoExtract in handleTabUpdate,
\* showNotifications in showNotification); wait: the timer of the scan.
NewTask(kind, pc, text, tab) ==
  [kind |-> kind, pc |-> pc, sel |-> JUndefined, text |-> text, url |-> tab.url,
   title |-> tab.title, base |-> <<>>, seen |-> JUndefined,
   readFailed |-> FALSE, answer |-> NoAnswer, pending |-> NoNotification,
   res |-> NoResult, flag |-> Unread, wait |-> NoTimer]

\* A task of a handler that starts from the user's selection.
SelectionTask(kind, pc, sel, text, tab) ==
  [NewTask(kind, pc, text, tab) EXCEPT !.sel = sel]

NoTab == [url |-> <<>>, title |-> ""]

Next_i == Len(tasks) + 1

\* The context menu item exists: the dist script creates it when it starts,
\* the others when the extension is installed.
MenuExists == variant = "dist" \/ installed = "install"

\* A check that lets whitespace through.
NothingSelected_OnlyMissing(sel) == Falsy(sel)

\* !selectedText || selectedText.trim().length === 0
NothingSelected(sel) == Falsy(sel) \/ Len(Trim(sel.s)) = 0

\* contextMenus.onClicked of the dist script: handleJobExtraction.
DistContextMenu(sel, tab) ==
  IF NothingSelected(sel)
  THEN /\ tasks' = Append(tasks, SelectionTask("contextMenu", "done", sel, sel, tab))
       /\ UNCHANGED requests
  ELSE /\ tasks' = Append(tasks, SelectionTask("contextMenu", "getBase", sel, sel, tab))
       /\ UNCHANGED requests

\* processJobExtraction (and the body of the legacy handleContextMenuClick):
\* extractJobInfo calls sendJobToWebApp, which fetches at once.
StartExtraction(kind, sel, text, tab) ==
  /\ tasks' = Append(tasks, [SelectionTask(kind, "fetch", sel, text, tab)
                               EXCEPT !.base = ServiceDefaultUrl(variant)])
  /\ requests' = Append(requests,
       PostRequest(Next_i, ServiceDefaultUrl(variant), text, tab.url, tab.title))

\* contextMenus.onClicked of the firefox and legacy scripts.
PlainContextMenu(sel, tab) ==
  IF ~Falsy(sel)
  THEN StartExtraction("contextMenu", sel, sel, tab)
  ELSE /\ tasks' = Append(tasks, SelectionTask("contextMenu", "done", sel, sel, tab))
       /\ UNCHANGED requests

ContextMenuClick ==
  \E id \in {"extractJobInfo", "extractJob"},
     sel \in {JStr(s) : s \in Selections}, tab \in {JobTab} :
    /\ Room
    /\ variant # "client"
    /\ MenuExists
    /\ IF id # MenuItemId(variant) THEN UNCHANGED <<tasks, requests>>
       ELSE IF variant = "dist" THEN DistContextMenu(sel, tab)
       ELSE PlainContextMenu(sel, tab)
    /\ UNCHANGED <<textVars, popupVars, variant, storage, installed, saves, popupStatus,
                   client, notifications>>

\* commands.onCommand of the dist script: handleKeyboardShortcut reads the
\* selection with tabs.executeScript, which may fail.
DistKeyboard(scriptOk, selection, tab) ==
  /\ UNCHANGED <<requests, notifications>>
  /\ IF ~scriptOk
     THEN tasks' = Append(tasks,
            [SelectionTask("keyboard", "notifSetting", JStr(selection), JUndefined, tab)
               EXCEPT !.pending = HandlerErrorDist])
     ELSE IF NothingSelected(JStr(selection))
     THEN tasks' = Append(tasks,
            [SelectionTask("keyboard", "notifSetting", JStr(selection), JStr(selection), tab)
               EXCEPT !.pending = NoTextSelectedDist])
     ELSE tasks' = Append(tasks,
            SelectionTask("keyboard", "getBase", JStr(selection), JStr(selection), tab))

\* commands.onCommand of the firefox script: handleKeyboardShortcut asks the
\* content script of the active tab for the selection.  channel tells how the
\* message is answered: by getSelectedText, by the content script without
\* that handler ({received: true}), or not at all.
PlainKeyboard(hasTab, channel, hasRange, selection, tab) ==
  LET selectedText == getSelectedText(hasRange, selection) IN
  IF ~hasTab \/ channel = "fails"
  THEN /\ tasks' = Append(tasks, SelectionTask("keyboard", "done", JStr(selection),
                                               JUndefined, IF hasTab THEN tab ELSE NoTab))
       /\ notifications' = Append(notifications,
            [task |-> Next_i, title |-> UnexpectedError.title,
             message |-> UnexpectedError.message])
       /\ UNCHANGED requests
  ELSE IF channel = "ackOnly" \/ Falsy(selectedText)
  THEN /\ tasks' = Append(tasks, SelectionTask("keyboard", "done", JStr(selection),
                                               selectedText, tab))
       /\ notifications' = Append(notifications,
            [task |-> Next_i, title |-> NoTextSelected.title,
             message |-> NoTextSelected.message])
       /\ UNCHANGED requests
  ELSE /\ StartExtraction("keyboard", JStr(selection), selectedText, tab)
       /\ UNCHANGED notifications

KeyboardCommand ==
  \E command \in {"extract-job", "other"}, tab \in {JobTab}, selection \in Selections,
     ok \in BOOLEAN, hasRange \in BOOLEAN,
     channel \in {"getSelectedText", "ackOnly", "fails"} :
    /\ Room
    /\ variant \in {"dist", "firefox"}
    /\ IF command # "extract-job" THEN UNCHANGED <<tasks, requests, notifications>>
       ELSE IF variant = "dist" THEN DistKeyboard(ok, selection, tab)
       ELSE PlainKeyboard(ok, channel, hasRange, selection, tab)
    /\ UNCHANGED <<textVars, popupVars, variant, storage, installed, saves, popupStatus,
                   client>>

\* tabs.onUpdated of the dist script: handleTabUpdate reads autoExtract.
TabUpdated ==
  \E status \in {"loading", "complete"}, tab \in Tabs :
    /\ Room
    /\ variant = "dist"
    /\ IF status = "complete" /\ tab.url # <<>>
       THEN tasks' = Append(tasks, NewTask("tabUpdate", "autoSetting", JUndefined, tab))
       ELSE UNCHANGED tasks
    /\ UNCHANGED <<textVars, popupVars, variant, storage, installed, saves, popupStatus,
                   client, requests, notifications>>

\* runtime.onMessage of the firefox and legacy scripts: handleMessage.
RuntimeMessage ==
  \E action \in {"extractJob", "openWebApp", "other"},
     text \in {JUndefined, JStr(JobSelection)}, tab \in {OtherTab} :
    /\ Room
    /\ variant \in {"firefox", "legacy"}
    /\ IF action = "extractJob"
       THEN IF text.t = "string"
            THEN StartExtraction("message", JUndefined, text, tab)
            ELSE /\ tasks' = Append(tasks,
                      [NewTask("message", "done", text, tab)
                         EXCEPT !.res = Failure(<<"text is undefined">>)])
                 /\ UNCHANGED requests
       ELSE /\ tasks' = Append(tasks,
                 [NewTask("message", "done", JUndefined, tab)
                    EXCEPT !.res = IF action = "openWebApp" THEN Success(JUndefined)
                                   ELSE Failure(<<"Unknown action">>)])
            /\ UNCHANGED requests
    /\ UNCHANGED <<textVars, popupVars, variant, storage, installed, saves, popupStatus,
                   client, notifications>>

\* The storage read of getApiBaseUrl settles; sendJobToWebApp then fetches.
GetBaseReply ==
  \E i \in 1..Len(tasks), readOk \in BOOLEAN :
    /\ tasks[i].pc = "getBase"
    /\ LET t == tasks[i]
           apiBaseUrl == getApiBaseUrl(readOk, storage, variant)
       IN /\ tasks' = [tasks EXCEPT ![i] =
                         [t EXCEPT !.pc = "fetch", !.base = apiBaseUrl,
                                   !.seen = IF readOk THEN storage.apiBaseUrl ELSE JUndefined,
                                   !.readFailed = ~readOk]]
          /\ requests' = Append(requests, PostRequest(i, apiBaseUrl, t.text, t.url, t.title))
    /\ UNCHANGED <<textVars, popupVars, variant, storage, installed, saves, popupStatus,
                   client, notifications>>

\* The storage read of handleTabUpdate settles.  When auto-extraction is on
\* and the tab is a job site, the scan is scheduled.
AutoSettingReply ==
  \E i \in 1..Len(tasks), readOk \in BOOLEAN :
    /\ tasks[i].pc = "autoSetting"
    /\ LET t == tasks[i]
           scans == readOk /\ ~Falsy(storage.autoExtract) /\ isJobPostingSite(t.url)
       IN tasks' = [tasks EXCEPT ![i] =
            [t EXCEPT !.pc = IF scans THEN "timer" ELSE "done",
                      !.readFailed = ~readOk,
                      !.flag = IF readOk THEN storage.autoExtract ELSE Unread,
                      !.wait = IF scans THEN Timer(ScanDelayMs) ELSE NoTimer]]
    /\ UNCHANGED <<textVars, popupVars, variant, storage, installed, saves, popupStatus,
                   client, requests, notifications>>

\* The delay of a pending scan passes, in steps of half the delay.
ScanTimePasses ==
  /\ \E i \in 1..Len(tasks) : tasks[i].pc = "timer" /\ ~TimerDue(tasks[i].wait)
  /\ tasks' = [i \in 1..Len(tasks) |->
                 IF tasks[i].pc = "timer" /\ ~TimerDue(tasks[i].wait)
                 THEN [tasks[i] EXCEPT !.wait = Timer(@.left - ScanStep)]
                 ELSE tasks[i]]
  /\ UNCHANGED <<textVars, popupVars, variant, storage, installed, saves,
                 popupStatus, client, requests, notifications>>

\* A scan that runs without waiting for its timer.
ScanTimerFires_AtOnce ==
  \E i \in 1..Len(tasks), scriptOk \in BOOLEAN, bodyText \in PageBodies :
    /\ tasks[i].pc = "timer"
    /\ LET jobText == ScanScript(bodyText) IN
       tasks' = [tasks EXCEPT ![i] =
         IF scriptOk /\ ~Falsy(jobText) /\ Len(Trim(jobText.s)) > ScanMinLength
         THEN [@ EXCEPT !.pc = "getBase", !.text = jobText]
         ELSE [@ EXCEPT !.pc = "done", !.text = IF scriptOk THEN jobText ELSE JUndefined]]
    /\ UNCHANGED <<textVars, popupVars, variant, storage, installed, saves, popupStatus,
                   client, requests, notifications>>

\* The timer of handleTabUpdate fires: the page is scanned, and a text of
\* more than ScanMinLength characters after trimming is extracted.
ScanTimerFires ==
  \E i \in 1..Len(tasks), scriptOk \in BOOLEAN, bodyText \in PageBodies :
    /\ tasks[i].pc = "timer"
    /\ TimerDue(tasks[i].wait)
    /\ LET jobText == ScanScript(bodyText) IN
       tasks' = [tasks EXCEPT ![i] =
         IF scriptOk /\ ~Falsy(jobText) /\ Len(Trim(jobText.s)) > ScanMinLength
         THEN [@ EXCEPT !.pc = "getBase", !.text = jobText]
         ELSE [@ EXCEPT !.pc = "done", !.text = IF scriptOk THEN jobText ELSE JUndefined]]
    /\ UNCHANGED <<textVars, popupVars, variant, storage, installed, saves, popupStatus,
                   client, requests, notifications>>

\* A showNotification that does not consult the setting.
showNotification_Always(i, readOk, settings, pending) ==
  <<[task |-> i, title |-> pending.title, message |-> pending.message]>>

\* The storage read of showNotification settles: the notification is created
\* unless showNotifications is false or the read failed.
showNotification(i, readOk, settings, pending) ==
  IF readOk /\ settings.showNotifications # JBool(FALSE)
  THEN <<[task |-> i, title |-> pending.title, message |-> pending.message]>>
  ELSE <<>>

NotifSettingReply ==
  \E i \in 1..Len(tasks), readOk \in BOOLEAN :
    /\ tasks[i].pc = "notifSetting"
    /\ notifications' = notifications \o showNotification(i, readOk, storage, tasks[i].pending)
    /\ tasks' = [tasks EXCEPT ![i] =
                   [@ EXCEPT !.pc = "done",
                             !.flag = IF readOk THEN storage.showNotifications
                                      ELSE Unread]]
    /\ UNCHANGED <<textVars, popupVars, variant, storage, installed, saves, popupStatus,
                   client, requests>>

-----------------------------------------------------------------------------
(* APIClient                                                               *)

\* A base URL passed to the constructor.
OverrideUrl == <<"h", "t", "t", "p", "s", ":", "/", "/", "o", ".", "i", "o">>

NoClient ==
  [variant |-> "none", override |-> JUndefined, baseUrl |-> JUndefined]

\* new APIClient(baseUrl): the variant that reads the settings defaults the
\* parameter to null, the other one to the freecov URL.
NewClient ==
  \E cv \in {"settings", "fixed"}, override \in {JUndefined, JStr(OverrideUrl)} :
    /\ variant = "client"
    /\ client.variant = "none"
    /\ client' = [variant |-> cv, override |-> override,
                  baseUrl |-> IF override.t # "undefined" THEN override
                              ELSE IF cv = "settings" THEN JNull
                              ELSE JStr(FreecovUrl)]
    /\ UNCHANGED <<textVars, popupVars, variant, storage, installed, saves, popupStatus,
                   tasks, requests, notifications>>

\* this.baseUrl after loadAPISettings.
loadAPISettings(readOk, settings, baseUrl) ==
  IF ~Falsy(baseUrl) THEN baseUrl
  ELSE IF readOk /\ ~Falsy(settings.apiBaseUrl) THEN settings.apiBaseUrl
  ELSE JStr(LocalhostUrl)

\* The request a client method fetches with.
ClientRequest(i, kind, base, t) ==
  IF kind = "clientSend" THEN PostRequest(i, base, t.text, t.url, t.title)
  ELSE GetRequest(i, base)

\* sendJobToWebApp(text, url, title) or healthCheck() of the client.  The
\* settings variant first awaits loadAPISettings; the other fetches at once.
ClientCall ==
  \E kind \in {"clientSend", "clientHealth"},
     text \in {JStr(JobSelection)}, tab \in {OtherTab} :
    /\ Room
    /\ client.variant # "none"
    /\ LET t == IF kind = "clientSend" THEN NewTask(kind, "loadSettings", text, tab)
                ELSE NewTask(kind, "loadSettings", JUndefined, NoTab)
       IN IF client.variant = "settings"
          THEN /\ tasks' = Append(tasks, t)
               /\ UNCHANGED requests
          ELSE /\ tasks' = Append(tasks, [t EXCEPT !.pc = "fetch", !.base = client.baseUrl.s])
               /\ requests' = Append(requests, ClientRequest(Next_i, kind, client.baseUrl.s, t))
    /\ UNCHANGED <<textVars, popupVars, variant, storage, installed, saves, popupStatus,
                   client, notifications>>

\* The storage read of loadAPISettings settles; the method then fetches.
LoadSettingsReply ==
  \E i \in 1..Len(tasks), readOk \in BOOLEAN :
    /\ tasks[i].pc = "loadSettings"
    /\ LET t == tasks[i]
           baseUrl == loadAPISettings(readOk, storage, client.baseUrl)
       IN /\ client' = [client EXCEPT !.baseUrl = baseUrl]
          /\ tasks' = [tasks EXCEPT ![i] =
                         [t EXCEPT !.pc = "fetch", !.base = baseUrl.s,
                                   !.seen = IF readOk THEN storage.apiBaseUrl ELSE JUndefined,
                                   !.readFailed = ~readOk]]
          /\ requests' = Append(requests, ClientRequest(i, t.kind, baseUrl.s, t))
    /\ UNCHANGED <<textVars, popupVars, variant, storage, installed, saves, popupStatus,
                   notifications>>

\* A healthCheck that is content with any response.
HealthCompletion_AnyResponse(outcome) ==
  IF outcome.kind = "reject" THEN Return(JBool(FALSE))
  ELSE Return(JBool(TRUE))

\* How healthCheck completes once its fetch has settled.
HealthCompletion(outcome) ==
  IF outcome.kind = "reject" THEN Return(JBool(FALSE))
  ELSE Return(JBool(ResponseOk(outcome.status)))

-----------------------------------------------------------------------------
(* A fetch settles.                                                        *)

\* The handler's or method's state once its fetch has settled.
TaskAfterFetch(t, outcome) ==
  IF t.kind = "clientSend"
  THEN [t EXCEPT !.pc = "done", !.answer = outcome,
                 !.res = SendCompletion(outcome, "Auto-populate API failed: ")]
  ELSE IF t.kind = "clientHealth"
  THEN [t EXCEPT !.pc = "done", !.answer = outcome, !.res = HealthCompletion(outcome)]
  ELSE LET result == ExtractJobInfo(variant, SendCompletion(outcome, "API request failed: "))
       IN IF variant = "dist" /\ t.kind \in {"contextMenu", "keyboard"}
          THEN [t EXCEPT !.pc = "notifSetting", !.answer = outcome, !.res = result,
                         !.pending = DistNotification(result)]
          ELSE [t EXCEPT !.pc = "done", !.answer = outcome, !.res = result]

\* Handlers that notify only of a failure.
NotifyAfterFetch_FailureOnly(i, t, outcome) ==
  IF variant # "dist" /\ t.kind \in {"contextMenu", "keyboard"}
  THEN LET n == ProcessNotification(
                  ExtractJobInfo(variant, SendCompletion(outcome, "API request failed: ")))
       IN IF n.title = "Extraction Failed"
          THEN <<[task |-> i, title |-> n.title, message |-> n.message]>>
          ELSE <<>>
  ELSE <<>>

\* The notifications created at once when the fetch has settled: those of
\* the firefox and legacy handlers, which do not read showNotifications.
NotifyAfterFetch(i, t, outcome) ==
  IF variant # "dist" /\ t.kind \in {"contextMenu", "keyboard"}
  THEN LET n == ProcessNotification(
                  ExtractJobInfo(variant, SendCompletion(outcome, "API request failed: ")))
       IN <<[task |-> i, title |-> n.title, message |-> n.message]>>
  ELSE <<>>

\* A handler that sends the request again when it failed.
FetchReply_Retry ==
  \E i \in 1..Len(tasks) : \E outcome \in Outcomes(tasks[i].kind) :
    /\ tasks[i].pc = "fetch"
    /\ IF outcome.kind = "reject" \/ ~ResponseOk(outcome.status)
       THEN /\ requests' = Append(requests, requests[CHOOSE k \in 1..Len(requests) : requests[k].task = i])
            /\ UNCHANGED <<tasks, notifications>>
       ELSE /\ tasks' = [tasks EXCEPT ![i] = TaskAfterFetch(tasks[i], outcome)]
            /\ notifications' = notifications \o NotifyAfterFetch(i, tasks[i], outcome)
            /\ UNCHANGED requests
    /\ UNCHANGED <<textVars, popupVars, variant, storage, installed, saves, popupStatus,
                   client>>

FetchReply ==
  \E i \in 1..Len(tasks) : \E outcome \in Outcomes(tasks[i].kind) :
    /\ tasks[i].pc = "fetch"
    /\ tasks' = [tasks EXCEPT ![i] = TaskAfterFetch(tasks[i], outcome)]
    /\ notifications' = notifications \o NotifyAfterFetch(i, tasks[i], outcome)
    /\ UNCHANGED <<textVars, popupVars, variant, storage, installed, saves, popupStatus,
                   client, requests>>

-----------------------------------------------------------------------------
(* Specifications.                                                         *)

vars == <<textVars, serviceVars, popupVars>>

\* The extension as loaded: an empty settings store, no client, no handler
\* run yet.
InitService ==
  /\ variant \in {"dist", "firefox", "legacy", "client"}
  /\ storage = EmptyStorage
  /\ installed = "no"
  /\ saves = 0
  /\ popupStatus = NoStatus
  /\ client = NoClient
  /\ tasks = <<>>
  /\ requests = <<>>
  /\ notifications = <<>>

Init == InitService /\ TextIdle /\ PopupIdle

Next ==
  \/ HandleInstallation
  \/ ToggleSetting
  \/ SaveApiDomain
  \/ ContextMenuClick
  \/ KeyboardCommand
  \/ TabUpdated
  \/ RuntimeMessage
  \/ GetBaseReply
  \/ AutoSettingReply
  \/ ScanTimePasses
  \/ ScanTimerFires
  \/ NotifSettingReply
  \/ NewClient
  \/ ClientCall
  \/ LoadSettingsReply
  \/ FetchReply

Spec == Init /\ [][Next]_vars

\* The TextExtractor on its own: one method applied to one drawn argument.
InitText == InitService /\ variant = "dist" /\ TextInit /\ PopupIdle

NextText ==
  \/ CallIsValidJobText
  \/ CallCleanText
  \/ CallCleanTextAgain
  \/ CallExtractKeyInfo

SpecText == InitText /\ [][NextText]_vars

\* A content script on its own: one message handled on one page.
InitContent == InitService /\ variant = "firefox" /\ MessageInit /\ PopupIdle

NextContent ==
  \/ CallHandleMessage
  \/ CallHandleMessagePlain

SpecContent == InitContent /\ [][NextContent]_vars

\* The open popup with its connection test: the API-domain field holds the
\* default or what the user typed, the store is edited through the field.
InitConnection ==
  /\ InitService
  /\ variant = "firefox"
  /\ TextIdle
  /\ popup = "open"
  /\ shown = [autoExtract |-> TRUE, showNotifications |-> TRUE]
  /\ apiDomainValue \in {LocalhostUrl} \cup TypedDomains
  /\ domainTimeout = NoTimer
  /\ now = 0
  /\ inputLog = <<>>
  /\ saveLog = <<>>
  /\ testButton = [disabled |-> FALSE, textContent |-> "Test"]
  /\ test = [n |-> 0, pc |-> "idle", url |-> <<>>, left |-> 0, result |-> NoStatus]
  /\ hideTimers = {}

NextConnection ==
  \/ TestClick
  \/ TestSettles
  \/ ConnectionTimePasses
  \/ HideTimerFires
  \/ SaveApiDomain

SpecConnection == InitConnection /\ [][NextConnection]_vars

\* fetch settles: with an answer, a failure or, at the latest, the timeout.
SpecConnectionFair == SpecConnection /\ WF_vars(TestSettles)

\* The popup on its own, over a store in one of the states it may be in.
InitPopup ==
  /\ variant = "firefox"
  /\ storage \in PopupStorages
  /\ installed = "no"
  /\ saves = 0
  /\ popupStatus = NoStatus
  /\ client = NoClient
  /\ tasks = <<>>
  /\ requests = <<>>
  /\ notifications = <<>>
  /\ TextIdle
  /\ PopupIdle

NextPopup ==
  \/ LoadSettings
  \/ DomainInput
  \/ PopupTimePasses
  \/ DomainTimerFires

SpecPopup == InitPopup /\ [][NextPopup]_vars

-----------------------------------------------------------------------------
(* Claims about TextExtractor.isValidJobText, checked under SpecText.      *)

\* The argument is a string with at least MinKeywordCount distinct keywords.
HasTwoKeywords ==
  /\ txtArg.t = "string"
  /\ KeywordCount(ToLowerCase(txtArg.s)) >= MinKeywordCount

\* C5: isValidJobText returns false, and does not throw, for null, non-string
\* and empty input and for every string whose length after trimming is below
\* 50, whatever keywords it contains.
C5_ShortOrNonStringRejected ==
  (/\ txtOp = "isValidJobText"
   /\ \/ txtArg.t # "string"
      \/ Len(Trim(txtArg.s)) < MinJobTextLength)
    => txtRet = Return(JBool(FALSE))

\* A call on a string that has two keywords and 49 characters after trimming
\* (50 or more before) was made and rejected.
C5_Witness ==
  /\ txtOp = "isValidJobText"
  /\ HasTwoKeywords
  /\ Len(txtArg.s) >= MinJobTextLength
  /\ Len(Trim(txtArg.s)) = MinJobTextLength - 1
  /\ txtRet = Return(JBool(FALSE))

\* C6 as stated: isValidJobText returns true for every string of length at
\* least 50 that contains at least 2 distinct keywords, case-insensitively.
C6_Original ==
  (/\ txtOp = "isValidJobText"
   /\ HasTwoKeywords
   /\ Len(txtArg.s) >= MinJobTextLength)
    => txtRet = Return(JBool(TRUE))

\* C6 amended: isValidJobText returns true for every string whose length
\* after trimming is at least 50 and that contains at least 2 distinct
\* keywords, case-insensitively.
C6_LongWithTwoKeywordsAccepted ==
  (/\ txtOp = "isValidJobText"
   /\ HasTwoKeywords
   /\ Len(Trim(txtArg.s)) >= MinJobTextLength)
    => txtRet = Return(JBool(TRUE))

\* A call on a padded string with exactly two keywords, in upper and mixed
\* case, and exactly 50 characters after trimming was made and accepted.
C6_Witness ==
  /\ txtOp = "isValidJobText"
  /\ txtArg.t = "string"
  /\ KeywordCount(ToLowerCase(txtArg.s)) = MinKeywordCount
  /\ KeywordCount(txtArg.s) = 0
  /\ Len(txtArg.s) > Len(Trim(txtArg.s))
  /\ Len(Trim(txtArg.s)) = MinJobTextLength
  /\ txtRet = Return(JBool(TRUE))

-----------------------------------------------------------------------------
(* Claims about submission, checked under Spec.                            *)

\* The requests and the notifications that handler run i has made.
RequestsOf(i) == {k \in 1..Len(requests) : requests[k].task = i}

NotificationsOf(i) == {k \in 1..Len(notifications) : notifications[k].task = i}

\* Runs that submit: the handlers of the background scripts and the
\* client's sendJobToWebApp.
HandlerKinds == {"contextMenu", "keyboard", "tabUpdate", "message"}

SubmissionKinds == HandlerKinds \cup {"clientSend"}

\* sendJobToWebApp has reached its fetch in run t.
Fetched(t) == t.base # <<>>

\* The server answered run t with a status outside 200..299.
AnsweredNonSuccess(t) ==
  /\ t.answer.kind = "response"
  /\ t.answer.status < 200 \/ t.answer.status > 299

\* C1: each call of sendJobToWebApp issues exactly one HTTP POST, to
\* <apiBaseUrl>/api/auto-populate-job, whose JSON body has exactly the fields
\* selectedText, sourceUrl and pageTitle with the text, URL and title the
\* call was given; this holds while the request is pending and after it has
\* succeeded or failed, and a run that never reached the call has no request.
C1_OnePostPerCall ==
  \A i \in 1..Len(tasks) :
    LET t == tasks[i] IN
    t.kind \in SubmissionKinds =>
      /\ t.answer # NoAnswer => Fetched(t)
      /\ IF Fetched(t)
         THEN \E k \in 1..Len(requests) :
                /\ RequestsOf(i) = {k}
                /\ requests[k] =
                     [task |-> i, method |-> "POST",
                      url |-> t.base \o AutoPopulatePath,
                      body |-> [selectedText |-> t.text, sourceUrl |-> t.url,
                                pageTitle |-> t.title]]
         ELSE RequestsOf(i) = {}

\* Two calls have completed, one answered with a 2xx status and one that
\* failed in transport, and each has exactly one request.
C1_Witness ==
  \E i, j \in 1..Len(tasks) :
    /\ tasks[i].kind \in SubmissionKinds /\ tasks[j].kind \in SubmissionKinds
    /\ tasks[i].answer.kind = "response" /\ ResponseOk(tasks[i].answer.status)
    /\ tasks[j].answer.kind = "reject"
    /\ Cardinality(RequestsOf(i)) = 1 /\ Cardinality(RequestsOf(j)) = 1
    /\ Len(requests) = 2

\* C2: when the server answers with a status outside 200..299, extractJobInfo
\* returns a result with success = false whose error message contains the
\* status code.
C2_NonSuccessStatusReported ==
  \A i \in 1..Len(tasks) :
    LET t == tasks[i] IN
    (t.kind \in HandlerKinds /\ AnsweredNonSuccess(t)) =>
      /\ "success" \in DOMAIN t.res
      /\ t.res.success = FALSE
      /\ \E k \in 1..Len(t.res.error) : t.res.error[k] = ToString(t.answer.status)

\* A keyboard extraction was answered with status 500 and a context-menu
\* extraction with status 300; both results are failures naming the status.
C2_Witness ==
  \E i, j \in 1..Len(tasks) :
    /\ tasks[i].kind = "keyboard" /\ tasks[i].answer.kind = "response"
    /\ tasks[i].answer.status = 500
    /\ tasks[i].res.success = FALSE /\ tasks[i].res.error[2] = "500"
    /\ tasks[j].kind = "contextMenu" /\ tasks[j].answer.kind = "response"
    /\ tasks[j].answer.status = 300
    /\ tasks[j].res.success = FALSE /\ tasks[j].res.error[2] = "300"

\* C3: when the fetch rejects (the server is unreachable), extractJobInfo
\* returns a result with success = false whose error is the message of the
\* transport error; the error does not escape.
C3_TransportFailureReported ==
  \A i \in 1..Len(tasks) :
    LET t == tasks[i] IN
    (t.kind \in HandlerKinds /\ t.answer.kind = "reject") =>
      /\ "success" \in DOMAIN t.res
      /\ t.res.success = FALSE
      /\ t.res.error = t.answer.message

\* The fetch of an automatic scan was rejected, and the handler has finished
\* with a result that carries the transport message.
C3_Witness ==
  \E i \in 1..Len(tasks) :
    /\ tasks[i].kind = "tabUpdate" /\ tasks[i].answer.kind = "reject"
    /\ tasks[i].pc = "done"
    /\ tasks[i].res.success = FALSE /\ tasks[i].res.error = Rejected.message

\* Run t has failed: its fetch was rejected, answered outside 200..299, or
\* its result is a failure.
SubmissionFailed(t) ==
  /\ t.answer # NoAnswer
  /\ \/ t.answer.kind = "reject"
     \/ AnsweredNonSuccess(t)
     \/ "success" \in DOMAIN t.res /\ ~t.res.success

\* C4: a failed submission is not retried and nothing is queued for later
\* delivery: a run that has failed has issued exactly one POST and has left
\* its fetch for good, no run ever has more than one, and the number of POSTs
\* equals the number of runs that reached the submission.
C4_NoRetry ==
  /\ \A i \in 1..Len(tasks) :
       /\ Cardinality(RequestsOf(i)) <= 1
       /\ (tasks[i].kind \in SubmissionKinds /\ SubmissionFailed(tasks[i])) =>
            /\ Cardinality(RequestsOf(i)) = 1
            /\ tasks[i].pc \in {"notifSetting", "done"}
  /\ Cardinality({k \in 1..Len(requests) : requests[k].method = "POST"})
       = Cardinality({i \in 1..Len(tasks) :
                        tasks[i].kind \in SubmissionKinds /\ Fetched(tasks[i])})

\* Two submissions have failed, one in transport and one with status 500;
\* both handlers have finished and there are two requests in all.
C4_Witness ==
  \E i, j \in 1..Len(tasks) :
    /\ tasks[i].kind \in HandlerKinds /\ tasks[j].kind \in HandlerKinds
    /\ tasks[i].answer.kind = "reject" /\ tasks[i].pc = "done"
    /\ tasks[j].answer.kind = "response" /\ tasks[j].answer.status = 500
    /\ tasks[j].pc = "done"
    /\ Len(requests) = 2

-----------------------------------------------------------------------------
(* Claims about what the handlers submit, checked under Spec.              *)

\* TextExtractor.isValidJobText rejects the value.
FailsValidation(v) == isValidJobText(v) = Return(JBool(FALSE))

\* The text a handler run works on: the selection, or the scanned text once
\* the scan has run.
HandledText(t) == IF t.kind = "tabUpdate" THEN t.text ELSE t.sel

HasHandledText(t) ==
  \/ t.kind \in {"contextMenu", "keyboard"}
  \/ t.kind = "tabUpdate" /\ t.pc \notin {"autoSetting", "timer"}

\* C7 as stated, its first half: text that fails validation is never
\* submitted, the context-menu, keyboard-shortcut and auto-scan handlers
\* issue no POST for it.
C7_Original ==
  \A i \in 1..Len(tasks) :
    LET t == tasks[i] IN
    (HasHandledText(t) /\ FailsValidation(HandledText(t))) => RequestsOf(i) = {}

\* The selection is empty, or in the dist script only whitespace.
EmptySelection(sel) ==
  sel.s = <<>> \/ (variant = "dist" /\ \A k \in 1..Len(sel.s) : sel.s[k] \in WhiteSpace)

\* C7 amended: the handlers do not apply isValidJobText; only empty text is
\* held back.  The context-menu handlers issue no POST and show no
\* notification for an empty selection (the dist script also for one of only
\* whitespace), the keyboard-shortcut handlers issue no POST for a selection
\* that is empty or only whitespace, and the auto-scan handler never shows a
\* notification and issues no POST for scanned text that is missing or has
\* at most 100 characters after trimming.
C7_OnlyEmptyTextHeldBack ==
  \A i \in 1..Len(tasks) :
    LET t == tasks[i] IN
    /\ (t.kind = "contextMenu" /\ EmptySelection(t.sel)) =>
         /\ RequestsOf(i) = {}
         /\ NotificationsOf(i) = {}
         /\ t.pc = "done"
    /\ (t.kind = "keyboard" /\ \A k \in 1..Len(t.sel.s) : t.sel.s[k] \in WhiteSpace) =>
         RequestsOf(i) = {}
    /\ t.kind = "tabUpdate" =>
         /\ NotificationsOf(i) = {}
         /\ (/\ HasHandledText(t)
             /\ t.text.t # "string" \/ Len(Trim(t.text.s)) <= ScanMinLength) =>
              RequestsOf(i) = {}

\* In the dist script a context-menu run and a keyboard-shortcut run on a
\* whitespace selection have both finished; nothing was requested, and only
\* the keyboard-shortcut run has notified.
C7_Witness ==
  /\ variant = "dist"
  /\ \E i, j \in 1..Len(tasks) :
       /\ tasks[i].kind = "contextMenu" /\ tasks[i].sel = JStr(BlankSelection)
       /\ tasks[i].pc = "done"
       /\ tasks[j].kind = "keyboard" /\ tasks[j].sel = JStr(BlankSelection)
       /\ tasks[j].pc = "done"
       /\ NotificationsOf(i) = {} /\ NotificationsOf(j) # {}
  /\ requests = <<>>

\* C8 as stated: on the context-menu and keyboard-shortcut paths the
\* payload's selectedText equals the selection with leading and trailing
\* whitespace removed.
C8_Original ==
  \A i \in 1..Len(tasks) :
    tasks[i].kind \in {"contextMenu", "keyboard"} =>
      \A k \in RequestsOf(i) :
        requests[k].body.selectedText = JStr(Trim(tasks[i].sel.s))

\* C8 amended: on the keyboard-shortcut path of the firefox script, which
\* reads the selection through the content script's getSelectedText, the
\* payload's selectedText equals the selection with leading and trailing
\* whitespace removed; on the context-menu path of every script and on the
\* keyboard-shortcut path of the dist script it is the selection unchanged.
C8_TrimmedByContentScriptOnly ==
  \A i \in 1..Len(tasks) :
    tasks[i].kind \in {"contextMenu", "keyboard"} =>
      \A k \in RequestsOf(i) :
        requests[k].body.selectedText =
          IF tasks[i].kind = "keyboard" /\ variant = "firefox"
          THEN JStr(Trim(tasks[i].sel.s))
          ELSE tasks[i].sel

\* The firefox script has posted, from the keyboard shortcut, a selection
\* that had whitespace around it, without that whitespace.
C8_Witness ==
  /\ variant = "firefox"
  /\ \E i \in 1..Len(tasks) :
       /\ tasks[i].kind = "keyboard" /\ tasks[i].sel = JStr(JobSelection)
       /\ \E k \in RequestsOf(i) :
            requests[k].body.selectedText = JStr(ExampleJobText)

-----------------------------------------------------------------------------
(* Claims about APIClient and the base URL, checked under Spec.            *)

\* The GET of health check i completed with a 2xx status.
HealthOk(t) == t.answer.kind = "response" /\ ResponseOk(t.answer.status)

\* C9 as stated: healthCheck never throws; it returns true exactly when
\* GET <base>/api/health completes with a 2xx status, and false for a non-2xx
\* status, an unreachable server, or when reading the settings store fails.
C9_Original ==
  \A i \in 1..Len(tasks) :
    LET t == tasks[i] IN
    (t.kind = "clientHealth" /\ t.pc = "done") =>
      /\ t.res = Return(JBool(HealthOk(t)))
      /\ t.readFailed => t.res = Return(JBool(FALSE))

\* C9 amended: healthCheck never throws; it issues one GET to
\* <base>/api/health and returns true exactly when that GET completes with a
\* 2xx status, false for a non-2xx status or an unreachable server.  A failed
\* read of the settings store does not make it return false: the GET is still
\* issued and alone decides the result.
C9_HealthCheckReportsReachability ==
  \A i \in 1..Len(tasks) :
    LET t == tasks[i] IN
    t.kind = "clientHealth" =>
      /\ t.pc = "done" =>
           t.res = [type |-> "return",
                    value |-> JBool(/\ t.answer.kind = "response"
                                    /\ t.answer.status \in 200..299)]
      /\ t.pc \in {"fetch", "done"} =>
           \E k \in 1..Len(requests) :
             /\ RequestsOf(i) = {k}
             /\ requests[k].method = "GET"
             /\ requests[k].url = t.base \o HealthPath

\* A health check whose read of the settings store failed has returned true
\* after a 2xx answer, and another one has returned false after status 300.
C9_Witness ==
  \E i, j \in 1..Len(tasks) :
    /\ tasks[i].kind = "clientHealth" /\ tasks[i].readFailed
    /\ tasks[i].answer.kind = "response" /\ tasks[i].answer.status = 299
    /\ tasks[i].res = Return(JBool(TRUE))
    /\ tasks[j].kind = "clientHealth"
    /\ tasks[j].answer.kind = "response" /\ tasks[j].answer.status = 300
    /\ tasks[j].res = Return(JBool(FALSE))

\* The base URL of the claim's rule: the constructor's override, else the
\* apiBaseUrl read from the store when it is set, else the fallback.
ResolvedBaseUrl(override, t, fallback) ==
  IF override # JUndefined THEN override.s
  ELSE IF ~t.readFailed /\ ~Falsy(t.seen) THEN t.seen.s
  ELSE fallback

\* C10: the base URL of a request is the explicit override given at
\* construction when there is one, otherwise the apiBaseUrl of the persisted
\* settings when it is set, otherwise the fallback default; the fallback is
\* also used when reading the settings fails.
C10_BaseUrlResolution ==
  \A i \in 1..Len(tasks) :
    LET t == tasks[i] IN
    /\ (t.kind \in {"clientSend", "clientHealth"} /\ client.variant = "settings"
        /\ Fetched(t)) =>
         t.base = ResolvedBaseUrl(client.override, t, LocalhostUrl)
    /\ (t.kind \in HandlerKinds /\ variant = "dist" /\ Fetched(t)) =>
         t.base = ResolvedBaseUrl(JUndefined, t, LocalhostUrl)

-----------------------------------------------------------------------------
(* Claims about the popup, checked under SpecPopup.                        *)

\* The typed text, formatted as saveApiDomain formats it, is not a URL.
InvalidDomain(domain) ==
  /\ Trim(domain) # <<>>
  /\ ~IsParseableUrl(FormatDomain(domain))

InvalidUrlStatus == [text |-> "Invalid URL format", type |-> "error"]

\* C11: when the text typed into the API-domain field does not form a valid
\* URL, after https:// is put in front of a text without protocol,
\* saveApiDomain writes nothing to the store, so the stored apiBaseUrl is as
\* before, and the inline error status is shown.
C11_InvalidDomainNotSaved ==
  \A j \in 1..Len(saveLog) :
    InvalidDomain(saveLog[j].domain) =>
      /\ saveLog[j].after = saveLog[j].before
      /\ saveLog[j].status = InvalidUrlStatus

\* saveApiDomain has run on a text with a space inside the host while the
\* store held the user's own URL; the URL is still stored and the error is
\* shown.
C11_Witness ==
  /\ saveLog # <<>>
  /\ InvalidDomain(saveLog[Len(saveLog)].domain)
  /\ saveLog[Len(saveLog)].before = JStr(StoredUrl)
  /\ storage.apiBaseUrl = JStr(StoredUrl)
  /\ popupStatus = InvalidUrlStatus

\* The second after input event k has passed without another input event.
Quiet(k) ==
  IF k < Len(inputLog)
  THEN inputLog[k + 1].at >= inputLog[k].at + DebounceMs
  ELSE \/ now > inputLog[k].at + DebounceMs
       \/ now = inputLog[k].at + DebounceMs /\ ~TimerDue(domainTimeout)

\* C12: typed API-domain input is debounced by 1 second: saveApiDomain runs
\* exactly once for each burst of input events less than 1 second apart,
\* 1 second after the last event of the burst and with the value typed last;
\* it never runs with, and so never persists, an intermediate value.
C12_DebouncedOnce ==
  /\ \A k \in 1..Len(inputLog) :
       Quiet(k) =>
         Cardinality({j \in 1..Len(saveLog) :
                        saveLog[j].at = inputLog[k].at + DebounceMs}) = 1
  /\ \A j \in 1..Len(saveLog) :
       /\ \E k \in 1..Len(inputLog) :
            /\ Quiet(k)
            /\ saveLog[j].at = inputLog[k].at + DebounceMs
            /\ saveLog[j].domain = inputLog[k].value
       /\ saveLog[j].after \in {saveLog[j].before, JStr(LocalhostUrl),
                                JStr(FormatDomain(saveLog[j].domain))}
  /\ Len(saveLog) = Cardinality({k \in 1..Len(inputLog) : Quiet(k)})
  /\ saveLog # <<>> => storage.apiBaseUrl = saveLog[Len(saveLog)].after

\* Two different values were typed half a second apart, and one save has
\* run, a second after the later one and with its value, which is stored.
C12_Witness ==
  /\ Len(inputLog) = 2
  /\ inputLog[1].value # inputLog[2].value
  /\ inputLog[2].at = inputLog[1].at + TickStep
  /\ Len(saveLog) = 1
  /\ saveLog[1].domain = inputLog[2].value
  /\ saveLog[1].at = inputLog[2].at + DebounceMs
  /\ storage.apiBaseUrl = JStr(FormatDomain(inputLog[2].value))
  /\ storage.apiBaseUrl # saveLog[1].before

-----------------------------------------------------------------------------
(* Claims about the automatic scan, notifications and interleaving,        *)
(* checked under Spec.                                                     *)

\* C13, for the tab-load handler: the autoExtract setting defaults to true
\* where it is read; when the handler reads a store in which the key was
\* never stored, it treats auto-extraction as enabled and, on a job site,
\* sets the timer of the scan.
C13_AutoExtractDefaultsTrue ==
  \A i \in 1..Len(tasks) :
    LET t == tasks[i] IN
    (/\ t.kind = "tabUpdate"
     /\ t.pc # "autoSetting"
     /\ t.flag = JUndefined
     /\ isJobPostingSite(t.url)) => t.wait.armed

\* C14: an automatic page-scan submission happens only for a
\* tab-load-complete event whose URL matches the job-site list while
\* auto-extraction is enabled, only after the 2-second delay has elapsed,
\* and only when the scanned text has trimmed length greater than 100;
\* every request belongs to a handler run, so another event causes no POST.
C14_ScanSubmitsOnlyWhenDue ==
  /\ \A k \in 1..Len(requests) : requests[k].task \in 1..Len(tasks)
  /\ \A i \in 1..Len(tasks) :
       LET t == tasks[i] IN
       (t.kind = "tabUpdate" /\ (RequestsOf(i) # {} \/ t.pc \in {"getBase", "fetch"})) =>
         /\ isJobPostingSite(t.url)
         /\ t.flag = JBool(TRUE)
         /\ t.wait = [armed |-> TRUE, left |-> 0]
         /\ t.text.t = "string"
         /\ Len(Trim(t.text.s)) > ScanMinLength

\* An automatic scan of a job site has posted a text of 101 characters
\* after trimming, after its delay.
C14_Witness ==
  \E i \in 1..Len(tasks) :
    /\ tasks[i].kind = "tabUpdate"
    /\ RequestsOf(i) # {}
    /\ tasks[i].wait = [armed |-> TRUE, left |-> 0]
    /\ Len(Trim(tasks[i].text.s)) = ScanMinLength + 1
    /\ storage.autoExtract = JBool(TRUE)

\* The handler run has posted and finished.
Finished(t) == t.pc = "done" /\ t.answer # NoAnswer

\* The showNotifications setting as the run met it: absent or true.
NotificationsOn(t) ==
  IF variant = "dist" /\ t.kind \in {"contextMenu", "keyboard"}
  THEN t.flag \in {JUndefined, JBool(TRUE)}
  ELSE storage.showNotifications # JBool(FALSE)

C16_HandlersDoNotInterfere ==
  /\ \A i, j \in 1..Len(tasks) :
       (/\ i # j
        /\ tasks[i].kind \in SubmissionKinds /\ tasks[i].pc = "fetch"
        /\ tasks[j].kind \in SubmissionKinds /\ tasks[j].pc = "fetch") =>
         IF variant = "client"
         THEN client.variant = "settings" =>
                tasks[j].base =
                  IF client.override # JUndefined THEN client.override.s
                  ELSE IF tasks[j].readFailed \/ Falsy(tasks[j].seen)
                       THEN LocalhostUrl
                  ELSE tasks[j].seen.s
         ELSE variant = "dist" =>
                tasks[j].base =
                  IF tasks[j].readFailed \/ Falsy(tasks[j].seen) THEN LocalhostUrl
                  ELSE tasks[j].seen.s
  /\ \A i \in 1..Len(tasks) :
       (tasks[i].kind \in HandlerKinds /\ tasks[i].answer # NoAnswer) =>
         tasks[i].res =
           ExtractJobInfo(variant, SendCompletion(tasks[i].answer, "API request failed: "))

-----------------------------------------------------------------------------
(* Claims about TextExtractor.cleanText and extractKeyInfo, checked under  *)
(* SpecText.                                                               *)

\* C17: cleanText is idempotent; cleaning a text that cleanText returned
\* returns that text unchanged.
C17_CleanTextIdempotent ==
  txtOp = "cleanTextAgain" => txtRet = Return(txtArg)

\* A cleaned text with a space inside has been cleaned once more.
C17_Witness ==
  /\ txtOp = "cleanTextAgain"
  /\ txtArg = JStr(<<"a", " ", "a">>)
  /\ txtRet = Return(JStr(<<"a", " ", "a">>))

\* C18: the text cleanText returns never holds two spaces in a row nor two
\* newlines in a row, and neither starts nor ends with whitespace; for null
\* and for any value that is not a string it is the empty string.
C18_CleanTextNormalised ==
  txtOp = "cleanText" =>
    /\ txtRet.type = "return"
    /\ txtRet.value.t = "string"
    /\ LET out == txtRet.value.s IN
       /\ ~Includes(out, <<" ", " ">>)
       /\ ~Includes(out, <<"\n", "\n">>)
       /\ out # <<>> => (out[1] \notin WhiteSpace /\ out[Len(out)] \notin WhiteSpace)
       /\ txtArg.t # "string" => out = <<>>

\* A text that starts with whitespace and holds two spaces in a row has been
\* cleaned.
C18_Witness ==
  /\ txtOp = "cleanText"
  /\ txtArg = JStr(<<"\n", "a", " ", " ", "a">>)
  /\ txtRet = Return(JStr(<<"a", " ", "a">>))

\* C19: cleanText collapses a run of newlines that stands between two
\* characters other than whitespace to a single newline, so that the line
\* boundary between them is still there in the cleaned text.
C19_NewlineRunsKeptAsOne ==
  (txtOp = "cleanText" /\ txtArg.t = "string") =>
    \A i, j \in 1..Len(txtArg.s) :
      (/\ i + 1 < j
       /\ txtArg.s[i] \notin WhiteSpace
       /\ txtArg.s[j] \notin WhiteSpace
       /\ \A k \in (i + 1)..(j - 1) : txtArg.s[k] = "\n") =>
        Includes(txtRet.value.s, <<txtArg.s[i], "\n", txtArg.s[j]>>)

\* C20: extractKeyInfo takes the value of a labelled field from that field's
\* own line only; for a "Location: Remote" line and a "Company: Acme" line,
\* one after the other in either order, it returns the location "Remote" and
\* the company "Acme".
C20_FieldValueFromOwnLine ==
  (/\ txtOp = "extractKeyInfo"
   /\ \E br \in LineBreaks :
        txtArg \in {JStr(LocationLine \o br \o CompanyLine),
                    JStr(CompanyLine \o br \o LocationLine)}) =>
    /\ txtRet.type = "return"
    /\ txtRet.value.location = JStr(<<"R", "e", "m", "o", "t", "e">>)
    /\ txtRet.value.company = JStr(<<"A", "c", "m", "e">>)

\* C21: the title extractKeyInfo returns is the text that follows a
\* "Job Title:", "Position:" or "Role:" prefix when a line of the text starts
\* with one, and otherwise the first line of the text, that is the text
\* before its first newline (either with its whitespace runs collapsed).
C21_TitleFromPrefixOrFirstLine ==
  (/\ txtOp = "extractKeyInfo"
   /\ txtArg.t = "string"
   /\ txtArg.s # <<>>
   /\ txtArg.s[1] \notin WhiteSpace) =>
    /\ txtRet.type = "return"
    /\ txtRet.value.title =
         JStr(Trim(ReplaceRuns(
           IF MatchTitle(txtArg.s) # {}
           THEN CHOOSE g \in MatchTitle(txtArg.s) : TRUE
           ELSE SubSeq(txtArg.s, 1, LineEnd(txtArg.s, 1)),
           WhiteSpace, <<" ">>)))

\* The text holds w, compared without regard to case.
Mentions(v, w) == v.t = "string" /\ Includes(ToLowerCase(v.s), w)

\* The text holds a dollar sign followed by a digit or a comma.
HasAmount(v) ==
  /\ v.t = "string"
  /\ \E i \in 1..(Len(v.s) - 1) : v.s[i] = "$" /\ v.s[i + 1] \in Digits \cup {","}

\* C22: extractKeyInfo never throws and returns a string for each of title,
\* company, location and salary, whatever the argument (null and
\* non-strings included): the empty string for company, location and salary
\* when the text holds no label or amount for its pattern to match, and for
\* title when the text is empty.
C22_FieldsDefaultToEmptyString ==
  txtOp = "extractKeyInfo" =>
    /\ txtRet.type = "return"
    /\ \A f \in {"title", "company", "location", "salary"} :
         txtRet.value[f].t = "string"
    /\ (\A w \in {<<"c", "o", "m", "p", "a", "n", "y", ":">>,
                  <<"e", "m", "p", "l", "o", "y", "e", "r", ":">>,
                  <<"o", "r", "g", "a", "n", "i", "z", "a", "t", "i", "o", "n", ":">>} :
          ~Mentions(txtArg, w)) => txtRet.value.company.s = <<>>
    /\ (\A w \in {<<"l", "o", "c", "a", "t", "i", "o", "n", ":">>,
                  <<"i", "n", ":">>,
                  <<"o", "f", "f", "i", "c", "e", ":">>} :
          ~Mentions(txtArg, w)) => txtRet.value.location.s = <<>>
    /\ ~HasAmount(txtArg) => txtRet.value.salary.s = <<>>
    /\ (txtArg.t # "string" \/ Trim(txtArg.s) = <<>>) => txtRet.value.title.s = <<>>

\* A text of two lines without a label or an amount has been analysed: its
\* title is not empty, the other three fields are.
C22_Witness ==
  /\ txtOp = "extractKeyInfo"
  /\ txtArg.t = "string"
  /\ Includes(txtArg.s, <<"\n">>)
  /\ txtRet.type = "return"
  /\ txtRet.value.title.s # <<>>
  /\ txtRet.value.company = JStr(<<>>)
  /\ txtRet.value.location = JStr(<<>>)
  /\ txtRet.value.salary = JStr(<<>>)

-----------------------------------------------------------------------------
(* Claims about the settings and the scripts that read them, checked under *)
(* Spec.                                                                   *)

\* The submission that this step issues, if any, goes to the apiBaseUrl that
\* the store holds.
PostsGoToStoredUrl ==
  \A k \in (Len(requests) + 1)..Len(requests') :
    (/\ variant \in {"dist", "firefox", "legacy"}
     /\ requests'[k].method = "POST"
     /\ storage.apiBaseUrl.t = "string"
     /\ ~tasks'[requests'[k].task].readFailed) =>
      requests'[k].url = storage.apiBaseUrl.s \o AutoPopulatePath

\* C23: once a valid apiBaseUrl has been saved, every later submission of the
\* background service is POSTed to the stored URL and not to the built-in
\* default of the script, in each of the background scripts.
C23_SubmissionsUseStoredUrl == [][PostsGoToStoredUrl]_vars

\* C24: an APIClient constructed without a base URL uses the latest settings
\* on every request; when the stored apiBaseUrl that a call reads differs
\* from what an earlier call on the same client read, the later call is
\* addressed to the value it read.
C24_ClientUsesLatestSettings ==
  (variant = "client" /\ client.variant = "settings" /\ client.override = JUndefined) =>
    \A i, j \in 1..Len(tasks) :
      (/\ i < j
       /\ Fetched(tasks[i]) /\ Fetched(tasks[j])
       /\ ~tasks[i].readFailed /\ ~tasks[j].readFailed
       /\ tasks[j].seen # tasks[i].seen
       /\ tasks[j].seen.t = "string") =>
        \E k \in RequestsOf(j) :
          StartsWith(requests[k].url, tasks[j].seen.s \o <<"/">>)

\* A step creates a notification only while the stored showNotifications is
\* not false, and a context-menu or keyboard extraction that ends while the
\* setting is absent or true (and, in the dist script, could be read) ends
\* with a notification.
NotifiesAsTheSettingSays ==
  /\ Len(notifications') > Len(notifications) =>
       storage.showNotifications # JBool(FALSE)
  /\ \A i \in 1..Len(tasks) :
       (/\ tasks[i].kind \in {"contextMenu", "keyboard"}
        /\ tasks[i].pc # "done"
        /\ tasks'[i].pc = "done"
        /\ storage.showNotifications \in {JUndefined, JBool(TRUE)}
        /\ variant = "dist" => tasks'[i].flag # Unread) =>
         Len(notifications') = Len(notifications) + 1

\* C25: while the stored showNotifications setting is false, no outcome of an
\* extraction (success, failure or no text selected) creates a notification;
\* while it is absent or true the notification is created.  This holds for
\* each of the background scripts.
C25_NotificationsFollowSetting == [][NotifiesAsTheSettingSays]_vars

\* The selection holds no text: it is empty or only whitespace.
NoTextIn(sel) == \A k \in 1..Len(sel.s) : sel.s[k] \in WhiteSpace

\* The titles of the notifications of run i.
TitlesOf(i) == {notifications[k].title : k \in NotificationsOf(i)}

\* C26 as stated: when the keyboard shortcut is pressed with no text selected
\* (no selection, an empty one or one of only whitespace), no POST is issued
\* and a "No Text Selected" notification is shown.
C26_Original ==
  \A i \in 1..Len(tasks) :
    LET t == tasks[i] IN
    (t.kind = "keyboard" /\ NoTextIn(t.sel)) =>
      /\ RequestsOf(i) = {}
      /\ t.pc = "done" => "No Text Selected" \in TitlesOf(i)

\* C26 amended: when the keyboard shortcut is pressed with no text selected,
\* no POST is issued.  The firefox script shows one notification: "No Text
\* Selected" when it could ask the content script for the selection,
\* "Extraction Error" when it could not.  The dist script shows one
\* notification, "No Text Selected" when it could read the selection and
\* "Error" when it could not, unless the showNotifications setting it then
\* reads is false or cannot be read, in which case it shows none.  Nothing is
\* requested or notified except by a handler run, and a command other than
\* "extract-job" starts none.
C26_NoTextSelectedHandled ==
  /\ \A k \in 1..Len(notifications) : notifications[k].task \in 1..Len(tasks)
  /\ \A i \in 1..Len(tasks) :
       LET t == tasks[i] IN
       (t.kind = "keyboard" /\ NoTextIn(t.sel)) =>
         /\ RequestsOf(i) = {}
         /\ t.pc = "done" =>
              /\ Cardinality(NotificationsOf(i)) =
                   IF variant = "dist" /\ t.flag \notin {JUndefined, JBool(TRUE)}
                   THEN 0 ELSE 1
              /\ TitlesOf(i) \subseteq
                   {IF t.text # JUndefined THEN "No Text Selected"
                    ELSE IF variant = "dist" THEN "Error" ELSE "Extraction Error"}

\* In the dist script the shortcut was pressed twice on a selection of only
\* whitespace, once with the notification shown and once with it withheld:
\* one "No Text Selected" notification and no request.
C26_Witness ==
  /\ variant = "dist"
  /\ requests = <<>>
  /\ Len(notifications) = 1
  /\ \E i, j \in 1..Len(tasks) :
       /\ tasks[i].kind = "keyboard" /\ tasks[i].sel = JStr(BlankSelection)
       /\ tasks[i].pc = "done" /\ TitlesOf(i) = {"No Text Selected"}
       /\ tasks[j].kind = "keyboard" /\ tasks[j].sel = JStr(BlankSelection)
       /\ tasks[j].pc = "done" /\ TitlesOf(j) = {}

-----------------------------------------------------------------------------
(* Claims about the content scripts, checked under SpecContent.            *)

\* The response is {selectedText}, with null or a trimmed string that is not
\* empty.
AnswersSelection(r) ==
  /\ r.key = "selectedText"
  /\ \/ r.value = JNull
     \/ /\ r.value.t = "string"
        /\ r.value.s # <<>>
        /\ r.value.s[1] \notin WhiteSpace
        /\ r.value.s[Len(r.value.s)] \notin WhiteSpace

\* C27 as stated: handleMessage of a content script calls sendResponse
\* exactly once for every message, with {selectedText} for the action
\* "getSelectedText" and with {received: true} for any other action.
C27_Original ==
  txtOp \in {"handleMessage", "handleMessagePlain"} =>
    /\ txtRet.type = "return"
    /\ Len(txtRet.value.sent) = 1
    /\ IF txtArg.action = "getSelectedText"
       THEN AnswersSelection(txtRet.value.sent[1])
       ELSE txtRet.value.sent[1] = [key |-> "received", value |-> JBool(TRUE)]

\* C27 amended: handleMessage calls sendResponse exactly once for every
\* message.  The content script that has getSelectedText answers the action
\* "getSelectedText" with {selectedText}, null or a trimmed string that is
\* not empty, and any other action with {received: true}; the content script
\* for the context menu only answers every action, "getSelectedText"
\* included, with {received: true}.
C27_OneResponsePerMessage ==
  txtOp \in {"handleMessage", "handleMessagePlain"} =>
    /\ txtRet.type = "return"
    /\ Len(txtRet.value.sent) = 1
    /\ IF txtOp = "handleMessage" /\ txtArg.action = "getSelectedText"
       THEN AnswersSelection(txtRet.value.sent[1])
       ELSE txtRet.value.sent[1] = [key |-> "received", value |-> JBool(TRUE)]

\* The content script has answered a getSelectedText request on a page with
\* a selection that has whitespace around it.
C27_Witness ==
  /\ txtOp = "handleMessage"
  /\ txtArg.action = "getSelectedText"
  /\ txtArg.hasRange
  /\ txtArg.selection = JobSelection
  /\ txtRet.value.sent = <<[key |-> "selectedText", value |-> JStr(ExampleJobText)]>>

-----------------------------------------------------------------------------
(* Claims about the popup's connection test, checked under SpecConnection  *)
(* and SpecConnectionFair.                                                 *)

\* The Test button as it is before a test.
ButtonRestored == testButton = [disabled |-> FALSE, textContent |-> "Test"]

\* The test has shown a success, failed or timeout status.
OutcomeShown ==
  \/ test.result = [text |-> "Connection successful!", type |-> "success"]
  \/ test.result.type = "error"
     /\ test.result.text \in {"Connection failed", "Connection timeout",
                              "Connection failed: 199", "Connection failed: 300",
                              "Connection failed: 500"}

\* C28: a connection test always terminates and restores the button.  After
\* a click on Test, whether the health fetch returns 2xx, returns another
\* status, rejects or runs into the 5-second timeout, the button is
\* eventually enabled again with the label "Test", and a success, failed or
\* timeout status has been shown; the button is disabled only while a test
\* is running.
C28_TestRestoresButton ==
  /\ [](test.pc # "fetch" => ButtonRestored)
  /\ [](test.pc = "done" => OutcomeShown)
  /\ (test.pc = "fetch") ~> (test.pc = "done" /\ ButtonRestored /\ OutcomeShown)

\* A test has run into its timeout, five seconds after the click, and the
\* button is enabled again.
C28_Witness ==
  /\ test.pc = "done"
  /\ test.result = [text |-> "Connection timeout", type |-> "error"]
  /\ testButton = [disabled |-> FALSE, textContent |-> "Test"]
  /\ popupStatus = test.result

\* C29: only success statuses are hidden by the timer; the 3-second timer
\* that a success status starts never empties the status line while it shows
\* an error or loading status that was displayed after it, under any
\* interleaving of connection tests and saves.
C29_OnlySuccessHidden ==
  [][popupStatus.type \in {"error", "loading"} => popupStatus'.type # ""]_vars

-----------------------------------------------------------------------------
(* Claim about what the store holds, checked under Spec.                   *)

\* "https://a.io": the text " a.io " without the whitespace around it and
\* with the protocol in front.
TypedUrl == <<"h", "t", "t", "p", "s", ":", "/", "/", "a", ".", "i", "o">>

\* The stored apiBaseUrl, once there is one, is a URL that can be parsed and
\* starts with http:// or https://: the script's default, the popup's
\* default or the typed address with https:// in front.
StoredUrlWellFormed ==
  storage.apiBaseUrl # JUndefined =>
    /\ storage.apiBaseUrl.t = "string"
    /\ StartsWith(storage.apiBaseUrl.s, HttpPrefix)
         \/ StartsWith(storage.apiBaseUrl.s, HttpsPrefix)
    /\ IsParseableUrl(storage.apiBaseUrl.s)
    /\ storage.apiBaseUrl.s \in {ServiceDefaultUrl(variant), LocalhostUrl, TypedUrl}

\* The install event writes the defaults when its reason is "install" and
\* leaves the store as it is otherwise.
InstallWritesDefaultsOnce ==
  /\ (installed = "no" /\ installed' = "install") =>
       storage' = [apiBaseUrl |-> JStr(IF variant = "legacy" THEN FreecovUrl
                                       ELSE LocalhostUrl),
                   autoExtract |-> JBool(TRUE), showNotifications |-> JBool(TRUE)]
  /\ (installed = "no" /\ installed' = "update") => storage' = storage

\* C30: after any sequence of installation and popup saves the stored
\* apiBaseUrl is a URL that can be parsed and starts with "http://" or
\* "https://": a typed text without protocol is stored with "https://" in
\* front, an empty or whitespace-only text stores the default URL, and the
\* install handler writes the defaults only when the reason is "install" and
\* leaves the stored settings unchanged otherwise.
C30_StoredUrlWellFormed ==
  /\ []StoredUrlWellFormed
  /\ [][InstallWritesDefaultsOnce]_vars

\* The user has saved an address of their own and the extension was then
\* updated: the store still holds that address.
C30_Witness ==
  /\ installed = "update"
  /\ saves > 0
  /\ storage.apiBaseUrl = JStr(<<"h", "t", "t", "p", "s", ":", "/", "/", "a", ".", "i", "o">>)

====
